---- MODULE Spec2Model ----
(***************************************************************************)
(* The MCP agent host runtime of navidrome: the two worker supervisors     *)
(* MCPNative (core/agents/mcp/mcp_process_native.go) and MCPWasm (the      *)
(* pre-compiled-module variant), their exit watchers, and the mapping of   *)
(* a tool call's outcome to the agent's (text, error) result.              *)
(***************************************************************************)
EXTENDS Integers, Sequences, FiniteSets, TLC

\* ---------------------------------------------------------------- bounds
NumCallers == 2
MaxSessions == 2
MaxCalls == 3
MaxCloses == 1

Callers == 1..NumCallers
Sessions == 1..MaxSessions

\* A nil pointer / nil interface value.
Nil == 0
\* The client injected through ClientOverride (no worker stands behind it).
MockClient == -1

\* ------------------------------------------------- Go strings and errors
\* strings.Contains
Contains(s, sub) ==
  \E i \in 1..(Len(s) - Len(sub) + 1) : SubSeq(s, i, i + Len(sub) - 1) = sub

\* strings.HasPrefix
HasPrefix(s, prefix) ==
  Len(s) >= Len(prefix) /\ SubSeq(s, 1, Len(prefix)) = prefix

\* An error value is the chain of its layers, outermost first: the text each
\* fmt.Errorf("...: %w", inner) puts in front of inner, down to the base error's
\* own text. <<>> is the nil error.
NilErr == << >>

\* fmt.Errorf(prefix + "%w", inner)
Wrap(prefix, inner) == <<prefix>> \o inner

\* err.Error(): the layers' texts, concatenated.
RECURSIVE ErrorText(_)
ErrorText(e) == IF e = << >> THEN "" ELSE Head(e) \o ErrorText(Tail(e))

\* errors.Is(e, target): target is e or one of the errors e wraps.
ErrorsIs(e, target) ==
  \E i \in 1..Len(e) : SubSeq(e, i, Len(e)) = target

\* io.ErrClosedPipe, io.EOF and agents.ErrNotFound
ErrClosedPipe == <<"io: read/write on closed pipe">>
ErrEOF == <<"EOF">>
ErrNotFound == <<"not found">>

\* --------------------------------------------------------------- state
VARIABLES
  backend,      \* "native" (MCPNative) or "wasm" (MCPWasm)
  override,     \* ClientOverride # nil
  mu,           \* the supervisor's mutex: Free or the goroutine holding it
  cmd,          \* n.cmd: Nil or the session whose process it is
  wasmModule,   \* w.wasmModule: Nil or the session whose instance it is
  stdin,        \* n.stdin / w.stdin: Nil or the session whose stdin pipe it is
  client,       \* n.client / w.client: Nil, MockClient or a session's client
  wasmCompiled, \* w.wasmCompiled (MCPWasm compiling per session): Nil or the
                \* session whose compiled module it is
  shared,       \* wasm: per shared handle (w.wasmRuntime, w.wasmCache,
                \* w.preCompiledModule) the number of Close calls made on it
  nsess,        \* start attempts made so far; attempt s uses index s
  worker,       \* per attempt: "none", "running", "exited" (by itself),
                \* "killed" (by cleanup)
  pipes,        \* per attempt and pipe end: -1 not created, else the
                \* number of Close calls made on it
  startRes,     \* per attempt: "none", "ok" or the step of start that failed
  hs,           \* per attempt: handshake "none", "ok", "failed"
  watcher,      \* per attempt: the exit watcher, "none", "waiting", "done"
  monitored,    \* per attempt: the handle its watcher compares against
                \* (currentCmd / instanceToMonitor)
  chan,         \* wasm, per attempt: instanceErrChan, "none", "empty",
                \* "full", "taken"
  kills,        \* per attempt: kill-and-wait / module Close calls by cleanup
  compiled,     \* per attempt (MCPWasm compiling per session): -1 not
                \* compiled, else the number of Close calls on compiledModule
  wclean,       \* per attempt: what its watcher found under the lock (the
                \* supervisor fields) and whether it ran cleanup; NoClean
                \* until the watcher has run
  pc,           \* per caller: position inside callMCPTool
  cur,          \* per caller: currentClient
  ctxDone,      \* per caller: the ctx of its call has been cancelled or its
                \* deadline has passed
  att,          \* per caller: the attempt it started in this call, or Nil
  mod,          \* per caller: the module startModule_locked returned to it
  ret,          \* per caller: what the last callMCPTool returned
  ncalls,       \* callMCPTool calls begun
  ncloses,      \* Close calls made
  mock,         \* what the injected client's CallToolFunc returns
  guestMem,     \* http_fetch: the guest's linear memory, one byte per address
  fetchArgs,    \* http_fetch: the arguments of the guest's call
  fetchNet,     \* http_fetch: what the network does with the request
  fetchOut,     \* http_fetch: NoFetchOut before the call, then what the call
                \* did (return code, addresses written, request made)
  guestCall,    \* callHostHTTPFetch: its arguments (method, url, requestBody,
                \* timeout, whether ctx is done)
  guestRet      \* callHostHTTPFetch: NoGuestRet before the call, then the
                \* timeoutMillis it passed and what it returned

supVars == <<cmd, wasmModule, wasmCompiled, stdin, client, shared>>
envVars == <<nsess, worker, pipes, startRes, hs, watcher, monitored, chan, kills, compiled,
            wclean>>
callVars == <<pc, cur, ctxDone, att, mod, ret, ncalls>>
fetchVars == <<guestMem, fetchArgs, fetchNet, fetchOut, guestCall, guestRet>>
vars == <<backend, override, mu, supVars, envVars, callVars, ncloses, mock, fetchVars>>

Free == <<"free", 0>>
CallerG(c) == <<"caller", c>>

\* The handles newMCPWasm receives and every session uses.
SharedHandles == {"wasmRuntime", "wasmCache", "preCompiledModule"}

PipeEnds == {"hostStdinWriter", "hostStdoutReader", "wasmStdinReader",
             "wasmStdoutWriter", "stderrPipe"}
NoPipes == [e \in PipeEnds |-> -1]
NoClean == [ran |-> FALSE, cmd |-> -2, wasmModule |-> -2, wasmCompiled |-> -2,
            stdin |-> -2, client |-> -2]
NoRet == [text |-> "", err |-> <<"(call in progress)">>]

\* The part of the state cleanup reads and writes, as one value.
World == [cmd |-> cmd, wasmModule |-> wasmModule, wasmCompiled |-> wasmCompiled,
          stdin |-> stdin, client |-> client, shared |-> shared, worker |-> worker,
          pipes |-> pipes, chan |-> chan, kills |-> kills, compiled |-> compiled]

Commit(st) ==
  /\ cmd' = st.cmd
  /\ wasmModule' = st.wasmModule
  /\ stdin' = st.stdin
  /\ client' = st.client
  /\ shared' = st.shared
  /\ worker' = st.worker
  /\ pipes' = st.pipes
  /\ chan' = st.chan
  /\ kills' = st.kills
  /\ wasmCompiled' = st.wasmCompiled
  /\ compiled' = st.compiled

\* f.Close() on one pipe end.
ClosePipe(st, s, e) == [st EXCEPT !.pipes[s][e] = @ + 1]

\* The worker of attempt s stops running, by itself (how = "exited") or
\* because cleanup kills or closes it (how = "killed"). For a module this is
\* the return of InstantiateModule, whose goroutine then sends on
\* instanceErrChan (part_000:266-267).
StopWorker(st, s, how) ==
  IF st.worker[s] = "running"
  THEN [st EXCEPT !.worker[s] = how,
                  !.chan[s] = IF @ = "empty" THEN "full" ELSE @]
  ELSE st

\* A cleanup that closes n.stdin without forgetting it (mutant of
\* Native_cleanupResources_locked).
Native_cleanupKeepsStdin(st) ==
  LET a == IF st.stdin # Nil
           THEN ClosePipe(st, st.stdin, "hostStdinWriter")
           ELSE st
      b == IF a.cmd # Nil
           THEN [StopWorker(a, a.cmd, "killed") EXCEPT !.kills[a.cmd] = @ + 1, !.cmd = Nil]
           ELSE a
  IN [b EXCEPT !.client = Nil]

\* MCPNative.cleanupResources_locked
Native_cleanupResources_locked(st) ==
  LET a == IF st.stdin # Nil
           THEN [ClosePipe(st, st.stdin, "hostStdinWriter") EXCEPT !.stdin = Nil]
           ELSE st
      b == IF a.cmd # Nil
           THEN [StopWorker(a, a.cmd, "killed") EXCEPT !.kills[a.cmd] = @ + 1, !.cmd = Nil]
           ELSE a
  IN [b EXCEPT !.client = Nil]

\* A cleanup that also closes the shared runtime (mutant of
\* Wasm_cleanupResources_locked).
Wasm_cleanupClosesRuntime(st) ==
  LET a == IF st.stdin # Nil
           THEN [ClosePipe(st, st.stdin, "hostStdinWriter") EXCEPT !.stdin = Nil]
           ELSE st
      b == IF a.wasmModule # Nil
           THEN [StopWorker(a, a.wasmModule, "killed") EXCEPT !.kills[a.wasmModule] = @ + 1,
                                                    !.wasmModule = Nil]
           ELSE a
  IN [b EXCEPT !.client = Nil, !.shared["wasmRuntime"] = @ + 1]

\* MCPWasm.cleanupResources_locked (pre-compiled-module variant)
Wasm_cleanupResources_locked(st) ==
  LET a == IF st.stdin # Nil
           THEN [ClosePipe(st, st.stdin, "hostStdinWriter") EXCEPT !.stdin = Nil]
           ELSE st
      b == IF a.wasmModule # Nil
           THEN [StopWorker(a, a.wasmModule, "killed") EXCEPT !.kills[a.wasmModule] = @ + 1,
                                                    !.wasmModule = Nil]
           ELSE a
  IN [b EXCEPT !.client = Nil]

\* MCPWasm.cleanupResources_locked of the variant that compiles the module
\* for every session (part_000:505-532): it also closes w.wasmCompiled.
WasmPS_cleanupResources_locked(st) ==
  LET a == IF st.stdin # Nil
           THEN [ClosePipe(st, st.stdin, "hostStdinWriter") EXCEPT !.stdin = Nil]
           ELSE st
      b == IF a.wasmModule # Nil
           THEN [StopWorker(a, a.wasmModule, "killed") EXCEPT !.kills[a.wasmModule] = @ + 1,
                                                    !.wasmModule = Nil]
           ELSE a
      d == IF b.wasmCompiled # Nil
           THEN [b EXCEPT !.compiled[b.wasmCompiled] = @ + 1, !.wasmCompiled = Nil]
           ELSE b
  IN [d EXCEPT !.client = Nil]

cleanupResources_locked(st) ==
  CASE backend = "native" -> Native_cleanupResources_locked(st)
    [] backend = "wasm" -> Wasm_cleanupResources_locked(st)
    [] OTHER -> WasmPS_cleanupResources_locked(st)

\* No guest is calling http_fetch.
InitNoFetch ==
  /\ guestMem = << >> /\ fetchArgs = << >> /\ fetchNet = << >> /\ fetchOut = << >>
  /\ guestCall = << >> /\ guestRet = << >>

\* The fields of the supervisor as newMCPNative / newMCPWasm return it, and
\* the environment before any session.
InitFields ==
  /\ mu = Free
  /\ cmd = Nil /\ wasmModule = Nil /\ stdin = Nil /\ client = Nil
  /\ wasmCompiled = Nil
  /\ compiled = [s \in Sessions |-> -1]
  /\ shared = [h \in SharedHandles |-> 0]
  /\ nsess = 0
  /\ worker = [s \in Sessions |-> "none"]
  /\ pipes = [s \in Sessions |-> NoPipes]
  /\ startRes = [s \in Sessions |-> "none"]
  /\ hs = [s \in Sessions |-> "none"]
  /\ watcher = [s \in Sessions |-> "none"]
  /\ monitored = [s \in Sessions |-> Nil]
  /\ chan = [s \in Sessions |-> "none"]
  /\ kills = [s \in Sessions |-> 0]
  /\ wclean = [s \in Sessions |-> NoClean]
  /\ pc = [c \in Callers |-> "idle"]
  /\ cur = [c \in Callers |-> Nil]
  /\ ctxDone = [c \in Callers |-> FALSE]
  /\ att = [c \in Callers |-> Nil]
  /\ mod = [c \in Callers |-> Nil]
  /\ ret = [c \in Callers |-> NoRet]
  /\ ncalls = 0
  /\ ncloses = 0

\* MCPNative, or MCPWasm with the module pre-compiled at construction.
InitSupervisor ==
  /\ backend \in {"native", "wasm"}
  /\ InitFields

\* The injected client before any test has touched it: what its CallToolFunc
\* returns, and the tool name and arguments its CallTool has recorded.
NoMock == [response |-> [isNil |-> TRUE, content |-> << >>], err |-> << >>,
           callToolName |-> "", callToolArgs |-> << >>]

Init ==
  /\ InitSupervisor
  /\ override \in BOOLEAN
  /\ mock = NoMock
  /\ InitNoFetch

\* A Close that takes and releases the mutex without cleaning up (mutant of
\* Close).
CloseNoCleanup ==
  /\ mu = Free
  /\ ncloses < MaxCloses
  /\ ncloses' = ncloses + 1
  /\ UNCHANGED <<fetchVars, mock, backend, override, mu, supVars, envVars, callVars>>

\* MCPNative.Close / MCPWasm.Close: Lock, cleanupResources_locked, Unlock.
Close ==
  /\ mu = Free
  /\ ncloses < MaxCloses
  /\ Commit(cleanupResources_locked(World))
  /\ ncloses' = ncloses + 1
  /\ UNCHANGED <<fetchVars, mock, backend, override, mu, nsess, startRes, hs, watcher, monitored,
                 wclean, callVars>>

\* ------------------------------------------------ the tool call's result
\* Exported tool names (mcp_agent.go constants).
McpToolNameGetBio == "get_artist_biography"
McpToolNameGetURL == "get_artist_url"
Tools == {McpToolNameGetBio, McpToolNameGetURL}

\* A *mcp.ToolResponse: nil, or a response with its Content, a sequence of
\* parts; a part is [hasText |-> TextContent # nil, text |-> TextContent.Text].
NilResponse == [isNil |-> TRUE, content |-> << >>]
Response(content) == [isNil |-> FALSE, content |-> content]
TextPart(t) == [hasText |-> TRUE, text |-> t]
NoTextPart == [hasText |-> FALSE, text |-> ""]

\* A test that forgets the parts without text and the empty text (mutant of
\* IsEmptyResponse).
IsEmptyResponseNoParts(response) ==
  \/ response.isNil
  \/ Len(response.content) = 0

IsEmptyResponse(response) ==
  \/ response.isNil
  \/ Len(response.content) = 0
  \/ ~response.content[1].hasText
  \/ response.content[1].text = ""

\* A test that looks for closed and broken pipes only (mutant of IsCommError).
IsCommErrorNoEOF(callErr) ==
  \/ ErrorsIs(callErr, ErrClosedPipe)
  \/ Contains(ErrorText(callErr), "broken pipe")

\* errors.Is(callErr, io.ErrClosedPipe) || Contains "broken pipe" || Contains "EOF"
IsCommError(callErr) ==
  \/ ErrorsIs(callErr, ErrClosedPipe)
  \/ Contains(ErrorText(callErr), "broken pipe")
  \/ Contains(ErrorText(callErr), "EOF")

\* MCPNative.callMCPTool from the return of CallTool on.
Native_callResult(toolName, response, callErr) ==
  IF callErr # NilErr
  THEN IF IsCommError(callErr)
       THEN [text |-> "",
             err |-> Wrap("native MCP agent process communication error: ", callErr)]
       ELSE [text |-> "",
             err |-> Wrap("failed to call native MCP tool '" \o toolName \o "': ", callErr)]
  ELSE IF IsEmptyResponse(response)
       THEN [text |-> "", err |-> ErrNotFound]
       ELSE IF HasPrefix(response.content[1].text, "handler returned an error:")
            THEN [text |-> "", err |-> ErrNotFound]
            ELSE [text |-> response.content[1].text, err |-> NilErr]

\* A mapping that returns a sentinel-prefixed text as it is (mutant of
\* Wasm_callResult).
Wasm_callResultNoSentinel(toolName, response, callErr) ==
  IF callErr # NilErr
  THEN IF IsCommError(callErr)
       THEN [text |-> "",
             err |-> Wrap("WASM MCP agent module communication error: ", callErr)]
       ELSE [text |-> "",
             err |-> Wrap("failed to call WASM MCP tool '" \o toolName \o "': ", callErr)]
  ELSE IF IsEmptyResponse(response)
       THEN [text |-> "", err |-> ErrNotFound]
       ELSE [text |-> response.content[1].text, err |-> NilErr]

\* MCPWasm.callMCPTool from the return of CallTool on.
Wasm_callResult(toolName, response, callErr) ==
  IF callErr # NilErr
  THEN IF IsCommError(callErr)
       THEN [text |-> "",
             err |-> Wrap("WASM MCP agent module communication error: ", callErr)]
       ELSE [text |-> "",
             err |-> Wrap("failed to call WASM MCP tool '" \o toolName \o "': ", callErr)]
  ELSE IF IsEmptyResponse(response)
       THEN [text |-> "", err |-> ErrNotFound]
       ELSE IF HasPrefix(response.content[1].text, "handler returned an error:")
            THEN [text |-> "", err |-> ErrNotFound]
            ELSE [text |-> response.content[1].text, err |-> NilErr]

callResult(b, toolName, response, callErr) ==
  IF b = "native" THEN Native_callResult(toolName, response, callErr)
  ELSE Wasm_callResult(toolName, response, callErr)

\* A failed initialization returned as its bare cause (mutant of NotReady).
CauseOnly(b, err) == [text |-> "", err |-> err]

\* callMCPTool's return when ensureClientInitialized_locked failed.
NotReady(b, err) ==
  [text |-> "",
   err |-> Wrap(IF b = "native" THEN "native MCP agent not ready: "
                ELSE "WASM MCP agent not ready: ", err)]

\* ------------------------------------------------------- callMCPTool
\* The errors the operating system or the worker hands back.
OsErr == <<"os error">>
InitErr == <<"context deadline exceeded">>
DeadlineErr == <<"context deadline exceeded">>
BioResponse == Response(<<TextPart("A bio.")>>)

\* A Lock that does not take the mutex (mutant of Lock).
NoLock(c) == Free

\* n.mu.Lock() by caller c, once the mutex is free: c holds it.
Lock(c) == CallerG(c)

\* An Unlock that leaves the mutex with the caller (mutant of Unlock).
NoUnlock(c) == CallerG(c)

\* n.mu.Unlock() by caller c before CallTool: the mutex is free.
Unlock(c) == Free

\* A supervisor that restarts on every call (mutant of alreadyInitialized).
neverInitialized(st) == FALSE

\* ensureClientInitialized_locked: "Check if already initialized".
alreadyInitialized(st) == st.client # Nil

\* callMCPTool: n.mu.Lock(), then ensureClientInitialized_locked up to the call
\* of startProcess_locked / startModule_locked: the override, the
\* already-initialized check, and the cleanup that precedes a (re)start. (The
\* start branch needs a free attempt index, which bounds the model.)
CallLock(c) ==
  /\ pc[c] \in {"idle", "returned"}
  /\ mu = Free
  /\ ncalls < MaxCalls
  /\ (~alreadyInitialized(World) /\ ~override) => nsess < MaxSessions
  /\ mu' = Lock(c)
  /\ cur' = [cur EXCEPT ![c] = Nil]
  /\ ctxDone' = [ctxDone EXCEPT ![c] = FALSE]
  /\ att' = [att EXCEPT ![c] = Nil]
  /\ mod' = [mod EXCEPT ![c] = Nil]
  /\ ret' = [ret EXCEPT ![c] = NoRet]
  /\ ncalls' = ncalls + 1
  /\ IF override
     THEN /\ client' = IF client = Nil THEN MockClient ELSE client
          /\ pc' = [pc EXCEPT ![c] = "haveClient"]
          /\ UNCHANGED <<cmd, wasmModule, wasmCompiled, stdin, shared, worker, pipes, chan, kills,
                         compiled>>
     ELSE IF alreadyInitialized(World)
          THEN /\ pc' = [pc EXCEPT ![c] = "haveClient"]
               /\ UNCHANGED <<supVars, worker, pipes, chan, kills, compiled>>
          ELSE /\ Commit(cleanupResources_locked(World))
               /\ pc' = [pc EXCEPT ![c] = "starting"]
  /\ UNCHANGED <<fetchVars, mock, backend, override, nsess, startRes, hs, watcher, monitored,
                 wclean, ncloses>>

\* What MCPNative.startProcess_locked leaves of the pipes it created when it
\* fails at step f, or succeeds (f = "ok"): the pipes made before the failing
\* step are closed; cmd.Start closes stderrPipe itself when it fails.
Native_startPipes(f) ==
  CASE f = "stdinPipe" -> NoPipes
    [] f = "stdoutPipe" -> [NoPipes EXCEPT !.hostStdinWriter = 1]
    [] f = "stderrPipe" -> [NoPipes EXCEPT !.hostStdinWriter = 1, !.hostStdoutReader = 1]
    [] f = "start" -> [NoPipes EXCEPT !.hostStdinWriter = 1, !.hostStdoutReader = 1,
                                      !.stderrPipe = 1]
    [] OTHER -> [NoPipes EXCEPT !.hostStdinWriter = 0, !.hostStdoutReader = 0,
                                !.stderrPipe = 0]

Native_startErr(f) ==
  Wrap("failed to start native MCP server: ",
       Wrap(CASE f = "stdinPipe" -> "native stdin pipe: "
              [] f = "stdoutPipe" -> "native stdout pipe: "
              [] f = "stderrPipe" -> "native stderr pipe: "
              [] OTHER -> "native start: ", OsErr))

\* What MCPWasm.startModule_locked leaves of the pipes it created. On an error
\* return the deferred closes run after the return statement has set the named
\* results hostStdinWriter and hostStdoutReader to nil, so only the locals
\* wasmStdinReader and wasmStdoutWriter are closed (part_000:212-244, 276).
Wasm_startPipes(f) ==
  CASE f = "stdinPipe" -> NoPipes
    [] f = "stdoutPipe" -> [NoPipes EXCEPT !.wasmStdinReader = 1, !.hostStdinWriter = 0]
    [] f = "instantiate" -> [NoPipes EXCEPT !.wasmStdinReader = 1, !.hostStdinWriter = 0,
                                            !.hostStdoutReader = 0, !.wasmStdoutWriter = 1]
    [] OTHER -> [NoPipes EXCEPT !.wasmStdinReader = 0, !.hostStdinWriter = 0,
                                !.hostStdoutReader = 0, !.wasmStdoutWriter = 0]

Wasm_startErr(f) ==
  Wrap("failed to start WASM MCP server: ",
       Wrap(CASE f = "stdinPipe" -> "wasm stdin pipe: "
              [] f = "stdoutPipe" -> "wasm stdout pipe: "
              [] OTHER -> "instantiate wasm module: ", OsErr))

\* ensureClientInitialized_locked: startProcess_locked and, when it fails, the
\* return through callMCPTool (Unlock, "not ready").
Native_startProcess(c) ==
  /\ backend = "native"
  /\ pc[c] = "starting"
  /\ mu = CallerG(c)
  /\ nsess < MaxSessions
  /\ LET s == nsess + 1 IN
     \E f \in {"ok", "stdinPipe", "stdoutPipe", "stderrPipe", "start"} :
       /\ nsess' = s
       /\ startRes' = [startRes EXCEPT ![s] = f]
       /\ pipes' = [pipes EXCEPT ![s] = Native_startPipes(f)]
       /\ IF f = "ok"
          THEN /\ worker' = [worker EXCEPT ![s] = "running"]
               /\ watcher' = [watcher EXCEPT ![s] = "waiting"]
               /\ monitored' = [monitored EXCEPT ![s] = s]
               /\ att' = [att EXCEPT ![c] = s]
               /\ pc' = [pc EXCEPT ![c] = "handshake"]
               /\ UNCHANGED <<mu, ret>>
          ELSE /\ ret' = [ret EXCEPT ![c] = NotReady("native", Native_startErr(f))]
               /\ mu' = Free
               /\ pc' = [pc EXCEPT ![c] = "returned"]
               /\ UNCHANGED <<worker, watcher, monitored, att>>
  /\ UNCHANGED <<fetchVars, mock, backend, override, supVars, hs, chan, kills, compiled,
                 wclean, cur, ctxDone, mod,
                 ncalls, ncloses>>

\* ensureClientInitialized_locked: startModule_locked and, when it fails, the
\* return through callMCPTool. NewAgent passes a usable runtime and compiled
\* module to newMCPWasm, so the checks at part_000:83, 207 and 247 pass.
\* f is what the two os.Pipe calls, the select on instanceErrChan and the
\* one-second timer saw:
\*   "instantiate"  InstantiateModule returned an error before the timer;
\*   "exitedEarly"  it returned without error before the timer: the select took
\*                  the channel's only value, moduleInstance is the instance;
\*   "blocking"     the timer fired and InstantiateModule is still running:
\*                  moduleInstance is still nil when it is read;
\*   "raced"        the timer fired and InstantiateModule returned before
\*                  moduleInstance was read, unsynchronized, for the watcher
\*                  (m1) and for the result (m2): each read sees nil or the
\*                  instance.
Wasm_startModule(c) ==
  /\ backend = "wasm"
  /\ pc[c] = "starting"
  /\ mu = CallerG(c)
  /\ nsess < MaxSessions
  /\ LET s == nsess + 1 IN
     \E f \in {"stdinPipe", "stdoutPipe", "instantiate", "exitedEarly", "blocking", "raced"},
        m1 \in {Nil, s}, m2 \in {Nil, s} :
       /\ f = "exitedEarly" => (m1 = s /\ m2 = s)
       /\ f = "blocking" => (m1 = Nil /\ m2 = Nil)
       /\ f = "raced" => (m1 = s => m2 = s)
       /\ f \in {"stdinPipe", "stdoutPipe", "instantiate"} => (m1 = Nil /\ m2 = Nil)
       /\ nsess' = s
       /\ startRes' = [startRes EXCEPT ![s] = f]
       /\ pipes' = [pipes EXCEPT ![s] = Wasm_startPipes(f)]
       /\ IF f \in {"exitedEarly", "blocking", "raced"}
          THEN /\ worker' = [worker EXCEPT ![s] = IF f = "blocking" THEN "running"
                                                  ELSE "exited"]
               /\ chan' = [chan EXCEPT ![s] = CASE f = "blocking" -> "empty"
                                                [] f = "raced" -> "full"
                                                [] OTHER -> "taken"]
               /\ watcher' = [watcher EXCEPT ![s] = "waiting"]
               /\ monitored' = [monitored EXCEPT ![s] = m1]
               /\ mod' = [mod EXCEPT ![c] = m2]
               /\ att' = [att EXCEPT ![c] = s]
               /\ pc' = [pc EXCEPT ![c] = "handshake"]
               /\ UNCHANGED <<mu, ret>>
          ELSE /\ ret' = [ret EXCEPT ![c] = NotReady("wasm", Wasm_startErr(f))]
               /\ mu' = Free
               /\ pc' = [pc EXCEPT ![c] = "returned"]
               /\ UNCHANGED <<worker, chan, watcher, monitored, mod, att>>
  /\ UNCHANGED <<fetchVars, mock, backend, override, supVars, hs, kills, compiled, wclean,
                 cur, ctxDone, ncalls,
                 ncloses>>

\* ensureClientInitialized_locked after a failed Initialize (native, lines
\* 88-101): n.cmd is set so that cleanup kills the process, then both pipes
\* are closed.
Native_initFailed(st, s) ==
  LET a == Native_cleanupResources_locked([st EXCEPT !.cmd = s])
  IN ClosePipe(ClosePipe(a, s, "hostStdinWriter"), s, "hostStdoutReader")

\* A successful Initialize that records the client only (mutant of
\* Native_initOk).
Native_initOkClientOnly(st, s) ==
  [st EXCEPT !.client = s]

\* ensureClientInitialized_locked after a successful Initialize (native, 104-106).
Native_initOk(st, s) ==
  [st EXCEPT !.cmd = s, !.stdin = s, !.client = s]

\* The same two paths of MCPWasm (part_000:106-120 and 122-125); m is the
\* module startModule_locked returned.
Wasm_initFailed(st, s, m) ==
  LET a == Wasm_cleanupResources_locked([st EXCEPT !.wasmModule = m])
  IN ClosePipe(ClosePipe(a, s, "hostStdinWriter"), s, "hostStdoutReader")

Wasm_initOk(st, s, m) ==
  [st EXCEPT !.wasmModule = m, !.stdin = s, !.client = s]

\* The same two paths of the MCPWasm compiling per session (part_000:429-449);
\* the compiled module startModule_locked returned is that of session s.
WasmPS_initFailed(st, s, m) ==
  LET a == WasmPS_cleanupResources_locked([st EXCEPT !.wasmModule = m, !.wasmCompiled = s])
  IN ClosePipe(ClosePipe(a, s, "hostStdinWriter"), s, "hostStdoutReader")

WasmPS_initOk(st, s, m) ==
  [st EXCEPT !.wasmModule = m, !.wasmCompiled = s, !.stdin = s, !.client = s]

initFailed(st, s, m) ==
  CASE backend = "native" -> Native_initFailed(st, s)
    [] backend = "wasm" -> Wasm_initFailed(st, s, m)
    [] OTHER -> WasmPS_initFailed(st, s, m)

initOk(st, s, m) ==
  CASE backend = "native" -> Native_initOk(st, s)
    [] backend = "wasm" -> Wasm_initOk(st, s, m)
    [] OTHER -> WasmPS_initOk(st, s, m)

Native_initErr == Wrap("failed to initialize native MCP client: ", InitErr)
Wasm_initErr == Wrap("failed to initialize WASM MCP client: ", InitErr)

\* ensureClientInitialized_locked: clientImpl.Initialize and what follows it.
\* The worker answers the handshake only while it runs; the handshake can fail
\* at any time (the worker is unresponsive or gone, initializationTimeout).
Handshake(c) ==
  /\ pc[c] = "handshake"
  /\ mu = CallerG(c)
  /\ LET s == att[c] IN
     \E ok \in BOOLEAN :
       /\ ok => worker[s] = "running"
       /\ hs' = [hs EXCEPT ![s] = IF ok THEN "ok" ELSE "failed"]
       /\ IF ok
          THEN /\ Commit(initOk(World, s, mod[c]))
               /\ pc' = [pc EXCEPT ![c] = "haveClient"]
               /\ UNCHANGED <<mu, ret>>
          ELSE /\ Commit(initFailed(World, s, mod[c]))
               /\ ret' = [ret EXCEPT ![c] =
                            NotReady(backend, IF backend = "native" THEN Native_initErr
                                              ELSE Wasm_initErr)]
               /\ mu' = Free
               /\ pc' = [pc EXCEPT ![c] = "returned"]
  /\ UNCHANGED <<fetchVars, mock, backend, override, nsess, startRes, watcher, monitored, wclean,
                 cur, ctxDone, att, mod, ncalls, ncloses>>

\* callMCPTool: currentClient := n.client; n.mu.Unlock()
CallUnlock(c) ==
  /\ pc[c] = "haveClient"
  /\ mu = CallerG(c)
  /\ cur' = [cur EXCEPT ![c] = client]
  /\ mu' = Unlock(c)
  /\ pc' = [pc EXCEPT ![c] = "calling"]
  /\ UNCHANGED <<fetchVars, mock, backend, override, supVars, envVars, ctxDone, att, mod, ret,
                 ncalls,
                 ncloses>>

\* Whether the worker behind client k can answer a request now.
Answers(k) ==
  /\ k \in Sessions
  /\ worker[k] = "running"
  /\ pipes[k].hostStdinWriter = 0
  /\ pipes[k].hostStdoutReader = 0

\* A callMCPTool that tears the session down itself when CallTool fails with
\* a communication error (mutant of CallToolReturn).
CallToolReturnEager(c) ==
  /\ pc[c] = "calling"
  /\ \E toolName \in Tools, o \in {"answer", "eof", "deadline"} :
       /\ o = "answer" => (cur[c] = MockClient \/ Answers(cur[c]))
       /\ o = "deadline" => ctxDone[c]
       /\ o = "eof" => (cur[c] = MockClient \/ ~Answers(cur[c]))
       /\ ret' = [ret EXCEPT ![c] =
                    callResult(backend, toolName,
                               IF o = "answer" THEN BioResponse ELSE NilResponse,
                               CASE o = "answer" -> NilErr
                                 [] o = "eof" -> Wrap("read: ", ErrEOF)
                                 [] OTHER -> DeadlineErr)]
       /\ IF o = "eof"
          THEN Commit(cleanupResources_locked(World))
          ELSE UNCHANGED <<supVars, worker, pipes, chan, kills, compiled>>
  /\ pc' = [pc EXCEPT ![c] = "returned"]
  /\ UNCHANGED <<fetchVars, mock, backend, override, mu, nsess, startRes, hs, watcher,
                 monitored, wclean, cur, ctxDone, att, mod, ncalls, ncloses>>

\* callMCPTool: currentClient.CallTool returns, and the result is mapped. The
\* tool name (GetArtistBiography or GetArtistURL made the call) only enters the
\* result. A real client answers while its worker runs, fails with an EOF once
\* the worker is gone, and fails with the context's error once the call's ctx
\* is done; the injected client returns whatever the test makes it return.
CallToolReturn(c) ==
  /\ pc[c] = "calling"
  /\ \E toolName \in Tools, o \in {"answer", "eof", "deadline"} :
       /\ o = "answer" => (cur[c] = MockClient \/ Answers(cur[c]))
       /\ o = "deadline" => ctxDone[c]
       /\ o = "eof" => (cur[c] = MockClient \/ ~Answers(cur[c]))
       /\ ret' = [ret EXCEPT ![c] =
                    callResult(backend, toolName,
                               IF o = "answer" THEN BioResponse ELSE NilResponse,
                               CASE o = "answer" -> NilErr
                                 [] o = "eof" -> Wrap("read: ", ErrEOF)
                                 [] OTHER -> DeadlineErr)]
  /\ pc' = [pc EXCEPT ![c] = "returned"]
  /\ UNCHANGED <<fetchVars, mock, backend, override, mu, supVars, envVars, cur, ctxDone, att,
                 mod, ncalls, ncloses>>

\* A worker started under the caller's ctx (mutant of workerContext).
workerContextOfCall(c) == "call"

\* The context the worker of caller c's start runs under:
\* exec.CommandContext(context.Background(), ...) and
\* InstantiateModule(context.Background(), ...).
workerContext(c) == "background"

\* The ctx of caller c's call in progress is cancelled or its deadline passes.
\* os/exec and wazero stop a worker whose own context is done.
CtxCancel(c) ==
  /\ pc[c] \in {"starting", "handshake", "haveClient", "calling"}
  /\ ~ctxDone[c]
  /\ ctxDone' = [ctxDone EXCEPT ![c] = TRUE]
  /\ IF workerContext(c) = "call" /\ att[c] # Nil
     THEN Commit(StopWorker(World, att[c], "exited"))
     ELSE UNCHANGED <<supVars, worker, pipes, chan, kills, compiled>>
  /\ UNCHANGED <<fetchVars, mock, backend, override, mu, nsess, startRes, hs, watcher, monitored,
                 wclean, pc, cur, att, mod, ret, ncalls, ncloses>>

\* The worker exits by itself (it crashed, or it read the end of its stdin).
WorkerExit(s) ==
  /\ worker[s] = "running"
  /\ Commit(StopWorker(World, s, "exited"))
  /\ UNCHANGED <<fetchVars, mock, backend, override, mu, nsess, startRes, hs, watcher, monitored,
                 wclean, callVars, ncloses>>

\* A watcher that never finds its process attached (mutant of Native_watcherMatches).
Native_watcherNeverMatches(st, s) == FALSE

\* A watcher without the identity test (mutant of Native_watcherMatches).
Native_watcherNoTest(st, s) == TRUE

\* The watcher's test under the lock: n.cmd == currentCmd.
Native_watcherMatches(st, s) == st.cmd = monitored[s]

\* A watcher that never finds its session attached (mutant of Wasm_watcherMatches).
Wasm_watcherNeverMatches(st, s) == FALSE

\* The watcher's test under the lock: w.wasmModule == instanceToMonitor.
Wasm_watcherMatches(st, s) == st.wasmModule = monitored[s]

Seen(st, r) == [ran |-> r, cmd |-> st.cmd, wasmModule |-> st.wasmModule,
                wasmCompiled |-> st.wasmCompiled,
                stdin |-> st.stdin, client |-> st.client]

\* The monitoring goroutine of startProcess_locked: currentCmd.Wait() has
\* returned; Lock, the identity test, cleanup, Unlock.
Native_watcher(s) ==
  /\ backend = "native"
  /\ watcher[s] = "waiting"
  /\ worker[s] \in {"exited", "killed"}
  /\ mu = Free
  /\ IF Native_watcherMatches(World, s)
     THEN /\ Commit(Native_cleanupResources_locked(World))
          /\ wclean' = [wclean EXCEPT ![s] = Seen(World, TRUE)]
     ELSE /\ UNCHANGED <<supVars, worker, pipes, chan, kills, compiled>>
          /\ wclean' = [wclean EXCEPT ![s] = Seen(World, FALSE)]
  /\ watcher' = [watcher EXCEPT ![s] = "done"]
  /\ UNCHANGED <<fetchVars, mock, backend, override, mu, nsess, startRes, hs, monitored,
                 callVars, ncloses>>

\* The monitoring goroutine of startModule_locked: it received from errChan;
\* Lock, the identity test, cleanup, Unlock.
Wasm_watcher(s) ==
  /\ backend = "wasm"
  /\ watcher[s] = "waiting"
  /\ chan[s] = "full"
  /\ mu = Free
  /\ LET st == [World EXCEPT !.chan[s] = "taken"] IN
     IF Wasm_watcherMatches(st, s)
     THEN /\ Commit(Wasm_cleanupResources_locked(st))
          /\ wclean' = [wclean EXCEPT ![s] = Seen(st, TRUE)]
     ELSE /\ Commit(st)
          /\ wclean' = [wclean EXCEPT ![s] = Seen(st, FALSE)]
  /\ watcher' = [watcher EXCEPT ![s] = "done"]
  /\ UNCHANGED <<fetchVars, mock, backend, override, mu, nsess, startRes, hs, monitored,
                 callVars, ncloses>>

\* ------------------------------- MCPWasm compiling the module per session
\* What startModule_locked of this variant (part_000:536-658) leaves of the
\* pipes it created, by the step f that failed; as in the pre-compiled
\* variant the named results are nil when the deferred closes run.
WasmPS_startPipes(f) ==
  CASE f \in {"readFile", "stdinPipe"} -> NoPipes
    [] f = "stdoutPipe" -> [NoPipes EXCEPT !.wasmStdinReader = 1, !.hostStdinWriter = 0]
    [] f \in {"compile", "instantiate"} ->
         [NoPipes EXCEPT !.wasmStdinReader = 1, !.hostStdinWriter = 0,
                         !.hostStdoutReader = 0, !.wasmStdoutWriter = 1]
    [] OTHER -> [NoPipes EXCEPT !.wasmStdinReader = 0, !.hostStdinWriter = 0,
                                !.hostStdoutReader = 0, !.wasmStdoutWriter = 0]

\* The compiled module of the attempt: not there when a step up to
\* CompileModule failed, closed by the deferred function when instantiation
\* failed (601-605), open otherwise.
WasmPS_startCompiled(f) ==
  CASE f \in {"readFile", "stdinPipe", "stdoutPipe", "compile"} -> -1
    [] f = "instantiate" -> 1
    [] OTHER -> 0

WasmPS_startErr(f) ==
  Wrap("failed to start WASM MCP server: ",
       Wrap(CASE f = "readFile" -> "read wasm file: "
              [] f = "stdinPipe" -> "wasm stdin pipe: "
              [] f = "stdoutPipe" -> "wasm stdout pipe: "
              [] f = "compile" -> "compile wasm module: "
              [] OTHER -> "instantiate wasm module: ", OsErr))

\* ensureClientInitialized_locked: startModule_locked of this variant and,
\* when it fails, the return through callMCPTool. f, m1 and m2 are as in
\* Wasm_startModule (instance is read as moduleInstance is there).
WasmPS_startModule(c) ==
  /\ backend = "wasmPerSession"
  /\ pc[c] = "starting"
  /\ mu = CallerG(c)
  /\ nsess < MaxSessions
  /\ LET s == nsess + 1 IN
     \E f \in {"readFile", "stdinPipe", "stdoutPipe", "compile", "instantiate",
               "exitedEarly", "blocking", "raced"},
        m1 \in {Nil, s}, m2 \in {Nil, s} :
       /\ f = "exitedEarly" => (m1 = s /\ m2 = s)
       /\ f = "blocking" => (m1 = Nil /\ m2 = Nil)
       /\ f = "raced" => (m1 = s => m2 = s)
       /\ f \notin {"exitedEarly", "blocking", "raced"} => (m1 = Nil /\ m2 = Nil)
       /\ nsess' = s
       /\ startRes' = [startRes EXCEPT ![s] = f]
       /\ pipes' = [pipes EXCEPT ![s] = WasmPS_startPipes(f)]
       /\ compiled' = [compiled EXCEPT ![s] = WasmPS_startCompiled(f)]
       /\ IF f \in {"exitedEarly", "blocking", "raced"}
          THEN /\ worker' = [worker EXCEPT ![s] = IF f = "blocking" THEN "running"
                                                  ELSE "exited"]
               /\ chan' = [chan EXCEPT ![s] = CASE f = "blocking" -> "empty"
                                                [] f = "raced" -> "full"
                                                [] OTHER -> "taken"]
               /\ watcher' = [watcher EXCEPT ![s] = "waiting"]
               /\ monitored' = [monitored EXCEPT ![s] = m1]
               /\ mod' = [mod EXCEPT ![c] = m2]
               /\ att' = [att EXCEPT ![c] = s]
               /\ pc' = [pc EXCEPT ![c] = "handshake"]
               /\ UNCHANGED <<mu, ret>>
          ELSE /\ ret' = [ret EXCEPT ![c] = NotReady("wasm", WasmPS_startErr(f))]
               /\ mu' = Free
               /\ pc' = [pc EXCEPT ![c] = "returned"]
               /\ UNCHANGED <<worker, chan, watcher, monitored, mod, att>>
  /\ UNCHANGED <<fetchVars, mock, backend, override, supVars, hs, kills, wclean, cur, ctxDone,
                 ncalls, ncloses>>

\* A watcher without the identity test (mutant of WasmPS_watcherMatches).
WasmPS_watcherNoTest(st, s) == TRUE

\* The watcher's test under the lock: w.wasmModule == instanceToMonitor.
WasmPS_watcherMatches(st, s) == st.wasmModule = monitored[s]

\* The monitoring goroutine of this variant (633-652): it received from
\* errChan; Lock, the identity test, then cleanup or, on a mismatch,
\* compiledToClose.Close; Unlock.
WasmPS_watcher(s) ==
  /\ backend = "wasmPerSession"
  /\ watcher[s] = "waiting"
  /\ chan[s] = "full"
  /\ mu = Free
  /\ LET st == [World EXCEPT !.chan[s] = "taken"] IN
     IF WasmPS_watcherMatches(st, s)
     THEN /\ Commit(WasmPS_cleanupResources_locked(st))
          /\ wclean' = [wclean EXCEPT ![s] = Seen(st, TRUE)]
     ELSE /\ Commit([st EXCEPT !.compiled[s] = @ + 1])
          /\ wclean' = [wclean EXCEPT ![s] = Seen(st, FALSE)]
  /\ watcher' = [watcher EXCEPT ![s] = "done"]
  /\ UNCHANGED <<fetchVars, mock, backend, override, mu, nsess, startRes, hs, monitored,
                 callVars, ncloses>>

Next ==
  \/ \E c \in Callers : CallLock(c)
  \/ \E c \in Callers : Native_startProcess(c)
  \/ \E c \in Callers : Wasm_startModule(c)
  \/ \E c \in Callers : Handshake(c)
  \/ \E c \in Callers : CallUnlock(c)
  \/ \E c \in Callers : CallToolReturn(c)
  \/ \E c \in Callers : CtxCancel(c)
  \/ \E s \in Sessions : WorkerExit(s)
  \/ \E s \in Sessions : Native_watcher(s)
  \/ \E s \in Sessions : Wasm_watcher(s)
  \/ Close

Spec == Init /\ [][Next]_vars

\* The MCPWasm that compiles the module for every session.
InitPerSession ==
  /\ backend = "wasmPerSession"
  /\ InitFields
  /\ override \in BOOLEAN
  /\ mock = NoMock
  /\ InitNoFetch

NextPerSession ==
  \/ \E c \in Callers : CallLock(c)
  \/ \E c \in Callers : WasmPS_startModule(c)
  \/ \E c \in Callers : Handshake(c)
  \/ \E c \in Callers : CallUnlock(c)
  \/ \E c \in Callers : CallToolReturn(c)
  \/ \E c \in Callers : CtxCancel(c)
  \/ \E s \in Sessions : WorkerExit(s)
  \/ \E s \in Sessions : WasmPS_watcher(s)
  \/ Close

SpecPerSession == InitPerSession /\ [][NextPerSession]_vars

\* Scheduling: a goroutine that can run does run. An exit watcher whose worker
\* has gone takes the mutex once it stays free; a caller holding the mutex
\* goes on through start, handshake (bounded by initializationTimeout) and
\* Unlock. Callers are not obliged to call, nor workers to exit.
Fairness ==
  /\ \A s \in Sessions : WF_vars(Native_watcher(s)) /\ WF_vars(Wasm_watcher(s))
  /\ \A c \in Callers :
       /\ WF_vars(Native_startProcess(c)) /\ WF_vars(Wasm_startModule(c))
       /\ WF_vars(Handshake(c)) /\ WF_vars(CallUnlock(c))

SpecLive == Spec /\ Fairness

\* ------------------------------------------- calls on an injected client
\* The errors and responses a test lets the injected client's CallTool return.
MockErrors ==
  {ErrClosedPipe, Wrap("write |1: ", ErrClosedPipe),
   <<"write |1: broken pipe">>, Wrap("send request: ", <<"write: broken pipe">>),
   ErrEOF, <<"unexpected EOF">>, Wrap("read response: ", ErrEOF),
   <<"file already closed">>, <<"closed pipe">>, <<"eof">>,
   DeadlineErr, <<"mcp tool error">>, Wrap("call: ", <<"mcp tool error">>)}
MockResponses ==
  {NilResponse, Response(<< >>), Response(<<NoTextPart>>),
   Response(<<TextPart("")>>), BioResponse,
   Response(<<TextPart("handler returned an error: not found")>>),
   Response(<<TextPart("handler returned an error:")>>),
   Response(<<TextPart("handler returned an error")>>),
   Response(<<TextPart(" handler returned an error: not found")>>),
   Response(<<TextPart("Handler returned an error: not found")>>),
   Response(<<TextPart(""), TextPart("A bio.")>>),
   Response(<<NoTextPart, TextPart("A bio.")>>),
   Response(<<TextPart("http://example.com/x"), NoTextPart>>)}
MockReturns ==
  {[response |-> NilResponse, err |-> e] : e \in MockErrors}
    \cup {[response |-> r, err |-> NilErr] : r \in MockResponses}
    \cup {[response |-> BioResponse, err |-> DeadlineErr]}

\* NewAgentForTesting: the supervisor with ClientOverride set to a mock client.
InitCall ==
  /\ InitSupervisor
  /\ override = TRUE
  /\ InitNoFetch
  /\ \E m \in MockReturns :
       mock = [NoMock EXCEPT !.response = m.response, !.err = m.err]

\* The test assigns mockClient.CallToolFunc.
SetMock ==
  /\ \E m \in MockReturns :
       /\ <<m.response, m.err>> # <<mock.response, mock.err>>
       /\ mock' = [mock EXCEPT !.response = m.response, !.err = m.err]
  /\ UNCHANGED <<fetchVars, backend, override, mu, supVars, envVars, callVars, ncloses>>

\* ArtistArgs with the fields crossed (mutant of ArtistArgs).
ArtistArgsCrossed(id, name, mbid) == [ID |-> id, Name |-> mbid, Mbid |-> name]

\* args := ArtistArgs{ID: id, Name: name, Mbid: mbid}
ArtistArgs(id, name, mbid) == [ID |-> id, Name |-> name, Mbid |-> mbid]

\* The artists the tests ask about.
ArtistIds == {"id1"}
ArtistNames == {"Artist Name"}
ArtistMbids == {"mbid1", ""}

\* One whole callMCPTool(toolName, args) by the test's goroutine on the
\* injected client: Lock, the override branch of
\* ensureClientInitialized_locked, Unlock, CallTool on the mock (which records
\* the tool name and the arguments), the mapping of what it returned.
callMCPTool(toolName, args) ==
  /\ override
  /\ mu = Free
  /\ pc[1] \in {"idle", "returned"}
  /\ ncalls < MaxCalls
  /\ client' = IF client = Nil THEN MockClient ELSE client
  /\ cur' = [cur EXCEPT ![1] = client']
  /\ mock' = [mock EXCEPT !.callToolName = toolName,
                          !.callToolArgs = Append(@, args)]
  /\ ret' = [ret EXCEPT ![1] = callResult(backend, toolName, mock.response, mock.err)]
  /\ pc' = [pc EXCEPT ![1] = "returned"]
  /\ ncalls' = ncalls + 1
  /\ UNCHANGED <<fetchVars, backend, override, mu, cmd, wasmModule, wasmCompiled, stdin,
                 shared, envVars,
                 ctxDone, att, mod, ncloses>>

\* MCPAgent.GetArtistBiography / GetArtistURL for one artist (a.impl is never
\* nil here).
GetArtistBiographyOf(id, name, mbid) ==
  callMCPTool(McpToolNameGetBio, ArtistArgs(id, name, mbid))
GetArtistURLOf(id, name, mbid) ==
  callMCPTool(McpToolNameGetURL, ArtistArgs(id, name, mbid))

GetArtistBiography ==
  \E id \in ArtistIds, name \in ArtistNames, mbid \in ArtistMbids :
    GetArtistBiographyOf(id, name, mbid)
GetArtistURL ==
  \E id \in ArtistIds, name \in ArtistNames, mbid \in ArtistMbids :
    GetArtistURLOf(id, name, mbid)

\* A call of the agent for toolName, whatever the artist.
Invoke(toolName) ==
  \/ toolName = McpToolNameGetBio /\ GetArtistBiography
  \/ toolName = McpToolNameGetURL /\ GetArtistURL

NextCall ==
  \/ GetArtistBiography
  \/ GetArtistURL
  \/ SetMock

SpecCall == InitCall /\ [][NextCall]_vars

\* ================================================================ claims
Running == {s \in Sessions : worker[s] = "running"}

\* C1: for both backends, in every reachable state at most one worker that the
\* supervisor started is still running: a new worker is started only after the
\* previous session's worker has been terminated.
C1_AtMostOneWorker == Cardinality(Running) <= 1

\* C1 restricted to MCPNative, where it holds.
C1_NativeAtMostOneWorker == backend = "native" => Cardinality(Running) <= 1

\* The watcher of attempt s runs (takes the lock, tests, possibly cleans up).
WatcherStep(s) == watcher[s] = "waiting" /\ watcher'[s] = "done"

\* C2: in MCPNative the exit watcher of process s runs cleanup only if n.cmd
\* is still s when it holds the mutex, and its step never closes a pipe of,
\* kills the process of, or clears the references to a session other than s.
C2_NativeWatcherOwnSession ==
  [][backend = "native" =>
       \A s \in Sessions : WatcherStep(s) =>
         /\ wclean'[s].ran => cmd = s
         /\ ~wclean'[s].ran => UNCHANGED <<supVars, pipes, worker, kills>>
         /\ \A j \in Sessions \ {s} :
              pipes'[j] = pipes[j] /\ worker'[j] = worker[j] /\ kills'[j] = kills[j]
         /\ client \notin {Nil, s} => client' = client
         /\ stdin \notin {Nil, s} => stdin' = stdin
         /\ cmd \notin {Nil, s} => cmd' = cmd]_vars

\* C2 witness: the watcher of the first process ran after Close and a restart,
\* found n.cmd to be the second process, and left the second session attached.
C2_Witness ==
  /\ backend = "native"
  /\ watcher[1] = "done" /\ ~wclean[1].ran /\ wclean[1].cmd = 2
  /\ hs[1] = "ok" /\ hs[2] = "ok"
  /\ cmd = 2 /\ stdin = 2 /\ client = 2
  /\ worker[2] = "running" /\ pipes[2].hostStdinWriter = 0

\* C3: in MCPWasm the watcher of an earlier session never closes the stdin
\* pipe or the module instance of a session started later and never clears the
\* later session's client; stated for the case the claim singles out, that
\* instantiation was still blocking when the watcher was launched.
C3_WasmWatcherSparesNewer ==
  [][backend = "wasm" =>
       \A s \in Sessions : (WatcherStep(s) /\ startRes[s] = "blocking") =>
         /\ \A j \in Sessions :
              j > s => (pipes'[j] = pipes[j] /\ worker'[j] = worker[j])
         /\ (client \in Sessions /\ client > s) => client' = client
         /\ (stdin \in Sessions /\ stdin > s) => stdin' = stdin
         /\ (wasmModule \in Sessions /\ wasmModule > s) => wasmModule' = wasmModule]_vars

\* Attempt s started a worker that was running when start returned.
StartOk(s) == startRes[s] \in {"ok", "blocking"}

\* All callers have made exactly one call and have returned; nobody called Close.
RaceOver ==
  /\ ~override
  /\ ncalls = NumCallers
  /\ \A c \in Callers : pc[c] = "returned"
  /\ ncloses = 0

\* No start and no handshake failed and no worker exited by itself.
Healthy ==
  \A s \in Sessions :
    /\ startRes[s] # "none" => StartOk(s)
    /\ hs[s] # "failed"
    /\ worker[s] # "exited"

\* Exactly one start and one handshake were made; session 1 is attached, its
\* worker runs and its pipes are open; each call returned the tool's answer or
\* its own call error.
OneSessionAttached ==
  /\ nsess = 1 /\ StartOk(1) /\ hs[1] = "ok"
  /\ client = 1 /\ stdin = 1
  /\ (backend = "native" => cmd = 1)
  /\ worker[1] = "running"
  /\ \A e \in PipeEnds : pipes[1][e] \in {-1, 0}
  /\ \A c \in Callers :
       \E toolName \in Tools :
         ret[c] \in {callResult(backend, toolName, BioResponse, NilErr),
                     callResult(backend, toolName, NilResponse, DeadlineErr)}

CallBegins(c) == pc[c] \in {"idle", "returned"} /\ pc'[c] \in {"haveClient", "starting"}

\* The attached session is Ready and its worker has exited by itself.
ReadyExited ==
  /\ ~override
  /\ client \in Sessions
  /\ hs[client] = "ok"
  /\ worker[client] = "exited"

\* The latest session was Ready, its worker exited by itself, and its exit
\* watcher has taken the lock and run.
ReadyExitedWatched ==
  /\ ~override
  /\ nsess \in Sessions
  /\ hs[nsess] = "ok"
  /\ worker[nsess] = "exited"
  /\ watcher[nsess] = "done"

\* A call that started a worker hands over to the handshake of a fresh attempt,
\* and after its handshake issues the tool call on that attempt's client.
FreshSessionUsed(c) ==
  /\ (pc[c] = "starting" /\ pc'[c] = "handshake") =>
       (nsess' = nsess + 1 /\ att'[c] = nsess' /\ hs[att'[c]] = "none")
  /\ (pc[c] = "haveClient" /\ pc'[c] = "calling" /\ att[c] # Nil) =>
       (cur'[c] = att[c] /\ hs[att[c]] = "ok")

\* C5 as claimed: a call that begins after the worker of the attached Ready
\* session has exited starts a fresh worker, handshakes anew and calls the tool
\* on the new client.
C5_NextCallStartsFresh ==
  [][\A c \in Callers :
       /\ (CallBegins(c) /\ ReadyExited) => pc'[c] = "starting"
       /\ FreshSessionUsed(c)]_vars

\* C5 as amended: the same for a call that begins after the exit watcher of the
\* exited worker has run; until then a call reuses the exited worker's client.
C5_NextCallAfterWatcherStartsFresh ==
  [][\A c \in Callers :
       /\ (CallBegins(c) /\ ReadyExitedWatched) => pc'[c] = "starting"
       /\ FreshSessionUsed(c)]_vars

\* C5 witness: session 1 was Ready, its worker exited and its watcher cleaned
\* up; a later call started session 2 and is inside CallTool on its client.
C5_Witness ==
  /\ ~override /\ ncloses = 0
  /\ hs[1] = "ok" /\ worker[1] = "exited" /\ watcher[1] = "done" /\ wclean[1].ran
  /\ hs[2] = "ok" /\ worker[2] = "running"
  /\ \E c \in Callers : pc[c] = "calling" /\ att[c] = 2 /\ cur[c] = 2

\* C6: callMCPTool has released the mutex when it is inside CallTool, and the
\* mutex is held by a caller only while that caller (re)initializes or takes
\* the client reference; so a second caller, Close and the exit watcher can
\* take the mutex while a caller waits in CallTool.
C6_UnlockedDuringCallTool ==
  \A c \in Callers :
    /\ pc[c] = "calling" => mu # CallerG(c)
    /\ mu = CallerG(c) => pc[c] \in {"starting", "handshake", "haveClient"}
    /\ (pc[c] = "calling" /\ mu = Free) =>
         /\ ncloses < MaxCloses => ENABLED Close
         /\ \A d \in Callers \ {c} :
              (pc[d] \in {"idle", "returned"} /\ ncalls < MaxCalls /\ client # Nil)
                => ENABLED CallLock(d)

\* C6 witness: two callers are inside CallTool on the same client of a Ready
\* session at the same time.
C6_Witness ==
  /\ ~override
  /\ \A c \in Callers : pc[c] = "calling" /\ cur[c] = client
  /\ client \in Sessions /\ hs[client] = "ok"
  /\ mu = Free

\* Some caller is inside the worker start or the handshake.
Initializing == \E c \in Callers : pc[c] \in {"starting", "handshake"}

\* C7 as claimed: worker start and the initialize handshake never run while the
\* caller holds the mutex.
C7_StartUnlocked ==
  \A c \in Callers : pc[c] \in {"starting", "handshake"} => mu # CallerG(c)

\* C7 as amended: worker start and the initialize handshake run with the mutex
\* held by the initializing caller, and no Close and no exit watcher runs
\* meanwhile.
C7_StartLocked ==
  [][/\ \A c \in Callers : pc[c] \in {"starting", "handshake"} => mu = CallerG(c)
     /\ Initializing => (ncloses' = ncloses /\ \A s \in Sessions : ~WatcherStep(s))]_vars

\* C7 witness: a caller is in the handshake of a restart, holding the mutex,
\* while the watcher of an exited worker waits for it.
C7_Witness ==
  \E c \in Callers, s \in Sessions :
    /\ pc[c] = "handshake" /\ mu = CallerG(c) /\ att[c] # s
    /\ watcher[s] = "waiting" /\ worker[s] = "exited"

\* Caller c's call returns from a failed start or a failed handshake.
InitFails(c) == pc[c] \in {"starting", "handshake"} /\ pc'[c] = "returned"

NotReadyPrefix ==
  IF backend = "native" THEN "native MCP agent not ready: "
  ELSE "WASM MCP agent not ready: "

\* The supervisor holds no session: client, cmd / module and stdin are nil.
Uninitialized(cl, cm, wm, sin) == cl = Nil /\ cm = Nil /\ wm = Nil /\ sin = Nil

\* C8: a call whose worker start or handshake fails returns ("", 'not ready'
\* wrapping the cause) whichever of the two failed, has made one start attempt
\* and makes no other, and leaves client, cmd / module and stdin nil with the
\* mutex released; a call that begins on an Uninitialized supervisor makes a
\* start attempt.
C8_InitFailureNotReady ==
  [][\A c \in Callers :
       /\ InitFails(c) =>
            /\ ret'[c].text = ""
            /\ Len(ret'[c].err) >= 2
            /\ Head(ret'[c].err) = NotReadyPrefix
            /\ ErrorsIs(ret'[c].err, IF pc[c] = "starting" THEN OsErr ELSE InitErr)
            /\ nsess' = IF pc[c] = "starting" THEN nsess + 1 ELSE nsess
            /\ Uninitialized(client', cmd', wasmModule', stdin')
            /\ mu' = Free
       /\ (pc'[c] = "starting" /\ pc[c] # "starting") => CallBegins(c)
       /\ (CallBegins(c) /\ ~override /\ Uninitialized(client, cmd, wasmModule, stdin))
            => pc'[c] = "starting"
       /\ (pc[c] = "starting" /\ pc'[c] # "starting") => nsess' = nsess + 1]_vars

\* C8 witness: one call returned 'not ready' from the failed handshake of
\* attempt 1, and a later call is in the handshake of attempt 2.
C8_Witness ==
  \E c, d \in Callers :
    /\ c # d /\ ~override
    /\ hs[1] = "failed"
    /\ pc[d] = "returned"
    /\ ret[d] = NotReady(backend, IF backend = "native" THEN Native_initErr ELSE Wasm_initErr)
    /\ pc[c] = "handshake" /\ att[c] = 2

\* Caller c's handshake fails and ensureClientInitialized_locked returns.
HandshakeFails(c) == pc[c] = "handshake" /\ pc'[c] = "returned"

\* The worker of attempt s is terminated, both host-side pipe ends of the
\* attempt are closed, and the supervisor holds no reference.
TornDown(s) ==
  /\ worker'[s] # "running"
  /\ pipes'[s].hostStdinWriter >= 1
  /\ pipes'[s].hostStdoutReader >= 1
  /\ Uninitialized(client', cmd', wasmModule', stdin')

\* C9: when the handshake fails, the just-started worker has been terminated,
\* both host-side pipe ends of the attempt are closed and the supervisor
\* holds no reference to the worker when ensureClientInitialized_locked returns.
C9_HandshakeFailureTeardown ==
  [][\A c \in Callers : HandshakeFails(c) => TornDown(att[c])]_vars

\* C9 restricted to MCPNative, where it holds.
C9_NativeHandshakeFailureTeardown ==
  [][backend = "native" => \A c \in Callers : HandshakeFails(c) => TornDown(att[c])]_vars

\* The cause is io.ErrClosedPipe, directly or wrapped, or its message
\* contains "broken pipe" or "EOF".
CauseIsComm(e) ==
  \/ \E i \in 1..Len(e) : SubSeq(e, i, Len(e)) = <<"io: read/write on closed pipe">>
  \/ \E i \in 1..Len(ErrorText(e)), w \in {"broken pipe", "EOF"} :
       /\ i + Len(w) - 1 <= Len(ErrorText(e))
       /\ SubSeq(ErrorText(e), i, i + Len(w) - 1) = w

CommKind == IF backend = "native" THEN "native MCP agent process communication error: "
            ELSE "WASM MCP agent module communication error: "

FailedToCallKind(toolName) ==
  IF backend = "native" THEN "failed to call native MCP tool '" \o toolName \o "': "
  ELSE "failed to call WASM MCP tool '" \o toolName \o "': "

\* C10: every error CallTool returns is surfaced by GetArtistBiography and
\* GetArtistURL as ("", err') with err' wrapping the original error; err' is of
\* the 'communication error' kind exactly when the cause is io.ErrClosedPipe
\* (directly or wrapped) or its message contains "broken pipe" or "EOF", and
\* of the 'failed to call tool' kind otherwise.
C10_CallToolErrorSurfaced ==
  [][\A toolName \in Tools :
       (Invoke(toolName) /\ mock.err # NilErr) =>
         /\ ret'[1].text = ""
         /\ Tail(ret'[1].err) = mock.err
         /\ ErrorsIs(ret'[1].err, mock.err)
         /\ CauseIsComm(mock.err) => Head(ret'[1].err) = CommKind
         /\ ~CauseIsComm(mock.err) => Head(ret'[1].err) = FailedToCallKind(toolName)]_vars

\* C10 witness: after an earlier call, GetArtistBiography has returned the
\* 'failed to call' error wrapping a cause that is no pipe error.
C10_Witness ==
  /\ override /\ pc[1] = "returned" /\ ncalls >= 2
  /\ mock.err = <<"mcp tool error">>
  /\ ret[1] = [text |-> "",
               err |-> <<FailedToCallKind(McpToolNameGetBio), "mcp tool error">>]

\* Caller c's call has returned the communication error from the client of
\* the session that is still attached.
CommFailedOnAttached(c) ==
  /\ ~override
  /\ pc[c] = "returned"
  /\ Len(ret[c].err) >= 2 /\ Head(ret[c].err) = CommKind
  /\ cur[c] \in Sessions /\ cur[c] = client

NotFoundCase(r) ==
  \/ r.isNil
  \/ r.content = << >>
  \/ /\ ~r.isNil /\ r.content # << >>
     /\ \/ ~r.content[1].hasText
        \/ r.content[1].text = ""
        \/ /\ Len(r.content[1].text) >= Len("handler returned an error:")
           /\ SubSeq(r.content[1].text, 1, Len("handler returned an error:"))
                = "handler returned an error:"

\* C12: a successful CallTool response is mapped to ("", agents.ErrNotFound),
\* the same error value each time, when the response is nil or has no parts,
\* its first part has no text content or an empty text, or the text begins
\* with "handler returned an error:"; in no other case is the result an error.
C12_NotFoundMapping ==
  [][\A toolName \in Tools :
       (Invoke(toolName) /\ mock.err = NilErr) =>
         IF NotFoundCase(mock.response)
         THEN ret'[1] = [text |-> "", err |-> <<"not found">>]
         ELSE ret'[1].err = NilErr /\ ret'[1].text # ""]_vars

\* C12 witness: GetArtistBiography and GetArtistURL have been answered, the
\* last with a text beginning with the sentinel, and returned not found.
C12_Witness ==
  /\ override /\ pc[1] = "returned" /\ Len(mock.callToolArgs) >= 2
  /\ mock.err = NilErr /\ ~mock.response.isNil /\ mock.response.content # << >>
  /\ mock.response.content[1].text = "handler returned an error: not found"
  /\ ret[1] = [text |-> "", err |-> <<"not found">>]

\* The first text part of response r is non-empty and no error sentinel.
HasPlainText(r) == ~NotFoundCase(r)

\* C13: GetArtistBiography makes exactly one CallTool, named
\* "get_artist_biography", and GetArtistURL exactly one named
\* "get_artist_url", each with {id, name, mbid} as given; when the response's
\* first text part is non-empty and no error sentinel that text is returned
\* verbatim with a nil error.
C13_CorrectToolAndVerbatimText ==
  [][\A id \in ArtistIds, name \in ArtistNames, mbid \in ArtistMbids :
       /\ GetArtistBiographyOf(id, name, mbid) =>
            /\ mock'.callToolName = "get_artist_biography"
            /\ mock'.callToolArgs =
                 Append(mock.callToolArgs, [ID |-> id, Name |-> name, Mbid |-> mbid])
       /\ GetArtistURLOf(id, name, mbid) =>
            /\ mock'.callToolName = "get_artist_url"
            /\ mock'.callToolArgs =
                 Append(mock.callToolArgs, [ID |-> id, Name |-> name, Mbid |-> mbid])
       /\ ((GetArtistBiographyOf(id, name, mbid) \/ GetArtistURLOf(id, name, mbid))
             /\ mock.err = NilErr /\ HasPlainText(mock.response)) =>
            ret'[1] = [text |-> mock.response.content[1].text, err |-> NilErr]]_vars

\* C13 witness: the first call, GetArtistBiography("id1", "Artist Name",
\* "mbid1"), reached the mock as get_artist_biography with these arguments and
\* returned the biography text.
C13_Witness ==
  /\ override /\ pc[1] = "returned"
  /\ mock.callToolName = "get_artist_biography"
  /\ mock.callToolArgs = <<[ID |-> "id1", Name |-> "Artist Name", Mbid |-> "mbid1"]>>
  /\ mock.response = Response(<<TextPart("A bio.")>>) /\ mock.err = NilErr
  /\ ret[1] = [text |-> "A bio.", err |-> NilErr]

\* C14: no per-session operation of MCPWasm (Close, cleanup, restart,
\* handshake-failure cleanup, watcher cleanup) closes the shared runtime, the
\* shared compilation cache or the pre-compiled module: they stay open over
\* any number of session starts and teardowns.
C14_SharedNeverClosed ==
  backend = "wasm" => \A h \in SharedHandles : shared[h] = 0

\* C14 witness: MCPWasm after a failed handshake with its cleanup, a restart,
\* a watcher cleanup and a Close, with the shared handles open.
C14_Witness ==
  /\ backend = "wasm" /\ ~override
  /\ nsess = 2 /\ hs[1] = "failed" /\ hs[2] = "ok"
  /\ wclean[2].ran /\ ncloses = 1
  /\ \A h \in SharedHandles : shared[h] = 0

\* The pipe ends MCPWasm.startModule_locked creates for a session.
WasmPipeEnds == {"wasmStdinReader", "hostStdinWriter", "hostStdoutReader",
                 "wasmStdoutWriter"}

\* Session s was established (its handshake succeeded) and has since been
\* detached from the supervisor by a cleanup.
EstablishedTornDown(s) == s <= nsess /\ hs[s] = "ok" /\ client # s

\* C15: after an established MCPWasm session is torn down, each of its four
\* pipe ends has been closed exactly once.
C15_WasmPipesClosedOnce ==
  backend = "wasm" =>
    \A s \in Sessions : EstablishedTornDown(s) =>
      \A e \in WasmPipeEnds : pipes[s][e] = 1

\* The part of C15 the code keeps: the host's stdin writer of a torn-down
\* session has been closed exactly once.
C15_WasmStdinClosedOnce ==
  backend = "wasm" =>
    \A s \in Sessions : EstablishedTornDown(s) => pipes[s].hostStdinWriter = 1

\* The start of session s failed inside startProcess_locked / startModule_locked.
StartFailed(s) == s <= nsess /\ startRes[s] \notin {"none", "ok", "exitedEarly", "blocking", "raced"}

\* Every pipe end created for session s has been closed exactly once.
CreatedPipesClosedOnce(s) ==
  \A e \in PipeEnds : pipes[s][e] # -1 => pipes[s][e] = 1

\* C16: when a start fails after it created pipes, every pipe end it created
\* has been closed exactly once when ensureClientInitialized_locked returns,
\* for MCPWasm (host-side ends included) and for MCPNative.
C16_StartFailureClosesPipes ==
  \A s \in Sessions : StartFailed(s) => CreatedPipesClosedOnce(s)

\* The part of C16 the code keeps: MCPNative.startProcess_locked closes every
\* pipe it created when a later step fails.
C16_NativeStartFailureClosesPipes ==
  backend = "native" => \A s \in Sessions : StartFailed(s) => CreatedPipesClosedOnce(s)

\* Sessions whose process was started, as values of n.stdin / n.cmd.
Started == {s \in Sessions : s <= nsess /\ startRes[s] = "ok"}

\* n with the given stdin, cmd and client, everything else as it is.
NativeWith(si, cm, cl) == [World EXCEPT !.stdin = si, !.cmd = cm, !.client = cl]

\* C17: MCPNative.cleanupResources_locked leaves stdin, cmd and client nil from
\* any combination of nil and non-nil values and changes nothing when run
\* again; over any sequence of Close calls and watcher, restart and
\* handshake-failure cleanups a session's stdin pipe is closed at most once
\* and its process is killed at most once.
C17_NativeCleanupIdempotent ==
  backend = "native" =>
    /\ \A s \in Sessions : pipes[s].hostStdinWriter <= 1 /\ kills[s] <= 1
    /\ \A si \in {Nil} \cup Started, cm \in {Nil} \cup Started,
          cl \in {Nil, MockClient} \cup Started :
         LET a == Native_cleanupResources_locked(NativeWith(si, cm, cl))
         IN /\ a.stdin = Nil /\ a.cmd = Nil /\ a.client = Nil
            /\ Native_cleanupResources_locked(a) = a

\* C17 witness: MCPNative after a restart and a Close: the first session's
\* stdin was closed and its process killed once, a watcher cleanup has run,
\* and the supervisor is clean.
C17_Witness ==
  /\ backend = "native" /\ ~override
  /\ nsess = 2 /\ ncloses = 1
  /\ pipes[1].hostStdinWriter = 1 /\ kills[1] = 1
  /\ \E s \in Sessions : wclean[s].ran
  /\ Uninitialized(client, cmd, wasmModule, stdin)

\* The watcher of session s takes its step.
WasmPS_WatcherStep(s) == watcher[s] = "waiting" /\ watcher'[s] = "done"

\* C18: in the MCPWasm that compiles per session, a watcher that finds
\* w.wasmModule different from the instance it monitors closes only the
\* compiled module of its own session and leaves w.stdin, w.wasmModule,
\* w.wasmCompiled and w.client unchanged (and with them every other handle).
C18_MismatchClosesOwnCompiledOnly ==
  [][\A s \in Sessions :
       (WasmPS_WatcherStep(s) /\ wasmModule # monitored[s]) =>
         /\ stdin' = stdin /\ wasmModule' = wasmModule
         /\ wasmCompiled' = wasmCompiled /\ client' = client
         /\ compiled' = [compiled EXCEPT ![s] = @ + 1]
         /\ pipes' = pipes /\ worker' = worker /\ kills' = kills]_vars

\* C18 witness: the watcher of session 1 ran while the established session 2
\* was attached, found a different module instance, closed the compiled module
\* of session 1 and left session 2 attached.
C18_Witness ==
  /\ backend = "wasmPerSession"
  /\ watcher[1] = "done" /\ ~wclean[1].ran
  /\ wclean[1].client = 2 /\ wclean[1].stdin = 2 /\ wclean[1].wasmCompiled = 2
  /\ client = 2 /\ stdin = 2 /\ wasmCompiled = 2
  /\ compiled[1] >= 1 /\ compiled[2] = 0

\* Close is called while session s is attached and Ready.
CloseOnReady(s) ==
  /\ ncloses' = ncloses + 1
  /\ ~override /\ client = s /\ hs[s] = "ok"

\* C19 (MCPNative): Close on a Ready supervisor terminates the session's
\* process, closes its stdin pipe once and leaves the supervisor
\* Uninitialized; a call that begins after Close on the Uninitialized
\* supervisor starts a fresh session; the exit watcher of a session that is
\* no longer attached changes nothing.
C19_CloseThenFreshSession ==
  [][backend = "native" =>
       /\ \A s \in Sessions : CloseOnReady(s) =>
            /\ worker'[s] # "running" /\ kills'[s] = kills[s] + 1
            /\ pipes'[s].hostStdinWriter = 1
            /\ Uninitialized(client', cmd', wasmModule', stdin')
       /\ \A c \in Callers :
            /\ (CallBegins(c) /\ ncloses >= 1 /\ ~override /\ client = Nil) =>
                 pc'[c] = "starting"
            /\ (pc[c] = "starting" /\ pc'[c] = "handshake") =>
                 (att'[c] = nsess + 1 /\ worker[att'[c]] = "none"
                  /\ worker'[att'[c]] = "running")
       /\ \A s \in Sessions :
            (WatcherStep(s) /\ ncloses >= 1 /\ hs[s] = "ok" /\ cmd # s) =>
              UNCHANGED <<supVars, worker, pipes, kills>>]_vars

\* C19 witness: session 1 was Ready and Close killed its process (its watcher
\* ran no cleanup); a later call established session 2, and the watcher of
\* session 1 ran while session 2 was attached, which still is.
C19_Witness ==
  /\ backend = "native" /\ ~override /\ ncloses = 1
  /\ hs[1] = "ok" /\ worker[1] = "killed" /\ kills[1] = 1
  /\ pipes[1].hostStdinWriter = 1
  /\ watcher[1] = "done" /\ ~wclean[1].ran /\ wclean[1].client = 2
  /\ hs[2] = "ok" /\ worker[2] = "running" /\ client = 2 /\ cmd = 2 /\ stdin = 2

\* CallTool of caller c returns the context's error and callMCPTool returns.
DeadlineReturn(c) ==
  /\ pc[c] = "calling" /\ pc'[c] = "returned"
  /\ ErrorsIs(ret'[c].err, DeadlineErr)

\* C20: the worker's lifetime does not depend on a call's context. When the
\* ctx of a call in progress is cancelled or expires, during initialization
\* or during CallTool, the session's process / module, stdin and client, its
\* worker and its pipes stay as they are; the call that then fails in CallTool
\* returns an error to its caller only and changes nothing of the session;
\* and a call that begins while a session is attached reuses it without a
\* restart.
C20_CallContextLeavesSession ==
  [][\A c \in Callers :
       /\ (~ctxDone[c] /\ ctxDone'[c]) =>
            UNCHANGED <<supVars, worker, pipes, chan, kills, hs, nsess>>
       /\ DeadlineReturn(c) =>
            /\ ctxDone[c]
            /\ ret'[c].text = "" /\ ret'[c].err # NilErr
            /\ UNCHANGED <<mu, supVars, envVars>>
            /\ \A d \in Callers \ {c} : ret'[d] = ret[d] /\ pc'[d] = pc[d]
       /\ (CallBegins(c) /\ ~override /\ client \in Sessions) =>
            /\ pc'[c] = "haveClient"
            /\ UNCHANGED <<supVars, envVars>>]_vars

\* C20 witness: caller 1 started session 1, its ctx expired and its CallTool
\* failed with the context's error; session 1 is still attached and running,
\* no other session was started, and caller 2 is inside CallTool on it.
C20_Witness ==
  /\ ~override /\ nsess = 1 /\ ncloses = 0
  /\ ctxDone[1] /\ att[1] = 1 /\ pc[1] = "returned"
  /\ ErrorsIs(ret[1].err, DeadlineErr) /\ Len(ret[1].err) = 2
  /\ hs[1] = "ok" /\ worker[1] = "running" /\ client = 1 /\ stdin = 1
  /\ pc[2] = "calling" /\ cur[2] = 1 /\ att[2] = Nil

\* ===================================================== the http_fetch bridge
\* The guest's linear memory is MemSize bytes; address MemSize and above is
\* out of bounds. The guest of this repository (callHostHTTPFetch) passes
\* separate, non-overlapping buffers and cells; they are laid out here at
\* fixed addresses, and a pointer argument is either that address or Beyond.
BodyBufSize == 2
ErrorBufSize == 2
MaxBodyLen == 3
UrlAt == 0
MethodAt == 2
BodyAt == 5
StatusAt == 7
BodyLenAt == 11
ErrorLenAt == 15
ResultBodyAt == 19
ResultErrorAt == ResultBodyAt + BodyBufSize
MemSize == ResultErrorAt + ErrorBufSize
Beyond == MemSize

\* Strings as the bytes they are in memory. The urls stand for a url that
\* http.NewRequestWithContext accepts and one it rejects.
UrlGood == <<104, 58>>
UrlBad == <<58, 104>>
MethodPut == <<80, 85, 84>>
MethodGet == <<71, 69, 84>>
RequestBody == <<123, 125>>
ResponseBytes == <<98, 111, 100, 121>>

\* The texts httpFetch formats, each abbreviated to three bytes.
MsgCreate == <<67, 82, 58>>
MsgExecute == <<69, 88, 58>>
MsgReadBody == <<82, 68, 58>>
MsgCapacity == <<67, 65, 80>>

\* A uint32 is held as its two 16-bit halves, value = hi * 2^16 + lo, so that
\* every value of the type can be written down.
Half == 65536
U32(n) == [hi |-> n \div Half, lo |-> n % Half]
U32Less(a, b) == a.hi < b.hi \/ (a.hi = b.hi /\ a.lo < b.lo)
\* The value of a uint32 below 2^31 as an integer.
U32Int(u) == u.hi * Half + u.lo

\* httpClient.Timeout and the default of httpFetch, in milliseconds.
ClientTimeout == 30000
DefaultTimeout == 30000

Min(a, b) == IF a < b THEN a ELSE b

\* binary.LittleEndian encoding of a uint32 and back.
LE32(v) == <<v % 256, (v \div 256) % 256, (v \div 65536) % 256, (v \div 16777216) % 256>>
ReadUint32Le(m, ptr) ==
  m[ptr] + 256 * m[ptr + 1] + 65536 * m[ptr + 2] + 16777216 * m[ptr + 3]

\* api.Memory: a range is accessible iff it ends inside the memory.
InBounds(ptr, len) == ptr + len <= MemSize

\* A read without the bounds check: bytes outside the memory read as zero
\* (mutant of MemRead).
MemReadUnchecked(m, ptr, len) ==
  [ok |-> TRUE,
   bytes |-> [i \in 1..len |-> IF ptr + i - 1 < MemSize THEN m[ptr + i - 1] ELSE 0]]

\* mem.Read(ptr, len)
MemRead(m, ptr, len) ==
  IF InBounds(ptr, len)
  THEN [ok |-> TRUE, bytes |-> [i \in 1..len |-> m[ptr + i - 1]]]
  ELSE [ok |-> FALSE, bytes |-> << >>]

\* mem.Write(ptr, bytes) on st = [mem, wrote]; wrote collects the addresses
\* written since the call began.
MemWrite(st, ptr, bytes) ==
  IF InBounds(ptr, Len(bytes))
  THEN [ok |-> TRUE,
        st |-> [mem |-> [x \in DOMAIN st.mem |->
                           IF x >= ptr /\ x < ptr + Len(bytes)
                           THEN bytes[x - ptr + 1] ELSE st.mem[x]],
                wrote |-> st.wrote \cup {x \in DOMAIN st.mem :
                                           x >= ptr /\ x < ptr + Len(bytes)}]]
  ELSE [ok |-> FALSE, st |-> st]

\* mem.WriteUint32Le(ptr, v); every v written here is far below 2^32.
WriteUint32Le(st, ptr, v) == MemWrite(st, ptr, LE32(v))

\* A writeBytesResult that reports the number of bytes copied (mutant of
\* writeBytesResult).
writeBytesResultCopiedLen(st, ptr, capacity, lenPtr, result) ==
  LET resultLen == Len(result)
      writeLen == Min(resultLen, capacity)
      w1 == IF writeLen > 0 THEN MemWrite(st, ptr, SubSeq(result, 1, writeLen))
            ELSE [ok |-> TRUE, st |-> st]
      w2 == WriteUint32Le(w1.st, lenPtr, writeLen)
  IN IF ~w1.ok THEN [ok |-> FALSE, st |-> st]
     ELSE [ok |-> w2.ok, st |-> w2.st]

\* writeBytesResult: copy at most capacity bytes, then store the original
\* length; a truncated write is a success.
writeBytesResult(st, ptr, capacity, lenPtr, result) ==
  LET resultLen == Len(result)
      writeLen == Min(resultLen, capacity)
      w1 == IF writeLen > 0 THEN MemWrite(st, ptr, SubSeq(result, 1, writeLen))
            ELSE [ok |-> TRUE, st |-> st]
      w2 == WriteUint32Le(w1.st, lenPtr, resultLen)
  IN IF ~w1.ok THEN [ok |-> FALSE, st |-> st]
     ELSE [ok |-> w2.ok, st |-> w2.st]

writeStringResult(st, ptr, capacity, lenPtr, result) ==
  writeBytesResult(st, ptr, capacity, lenPtr, result)

\* http.NewRequestWithContext rejects the request.
NewRequestFails(method, url) == url = UrlBad

\* The bound on the outbound request: the deadline of reqCtx
\* (context.WithTimeout(ctx, timeout)) and httpClient.Timeout, whichever ends
\* first.
RequestDeadline(timeout) ==
  IF U32Less(timeout, U32(ClientTimeout)) THEN U32Int(timeout) ELSE ClientTimeout

FetchReturn(rc, st, made, method, url, body, timeout) ==
  [called |-> TRUE, rc |-> rc, mem |-> st.mem, wrote |-> st.wrote,
   made |-> made, method |-> method, url |-> url, body |-> body,
   timeout |-> timeout,
   deadline |-> IF made THEN RequestDeadline(timeout) ELSE 0]

\* Error paths that always report status 0 (mutant of FetchError).
FetchErrorStatusZero(st, a, msg, status) ==
  LET s1 == writeStringResult(st, a.resultErrorPtr, a.resultErrorCapacity,
                              a.resultErrorLenPtr, msg).st
      s2 == WriteUint32Le(s1, a.resultStatusPtr, 0).st
  IN WriteUint32Le(s2, a.resultBodyLenPtr, 0).st

\* The three error paths of httpFetch that write (error text, status, body
\* length 0) without looking at what the writes return.
FetchError(st, a, msg, status) ==
  LET s1 == writeStringResult(st, a.resultErrorPtr, a.resultErrorCapacity,
                              a.resultErrorLenPtr, msg).st
      s2 == WriteUint32Le(s1, a.resultStatusPtr, status).st
  IN WriteUint32Le(s2, a.resultBodyLenPtr, 0).st

\* A response path that also reports a truncated body as an error, keeping
\* the body length (mutant of FetchResponse).
FetchResponseOverflowError(st, a, net) ==
  IF net.readFails
  THEN [rc |-> 0, st |-> FetchError(st, a, MsgReadBody, net.status)]
  ELSE LET w1 == WriteUint32Le(st, a.resultStatusPtr, net.status)
           w2 == writeBytesResult(w1.st, a.resultBodyPtr, a.resultBodyCapacity,
                                  a.resultBodyLenPtr, net.body)
       IN IF ~w1.ok THEN [rc |-> 1, st |-> w1.st]
          ELSE IF ~w2.ok \/ Len(net.body) > a.resultBodyCapacity
               THEN [rc |-> 0,
                     st |-> writeStringResult(w2.st, a.resultErrorPtr,
                                              a.resultErrorCapacity,
                                              a.resultErrorLenPtr, MsgCapacity).st]
               ELSE [rc |-> 0, st |-> WriteUint32Le(w2.st, a.resultErrorLenPtr, 0).st]

\* httpFetch from the response on (lines 126-158).
FetchResponse(st, a, net) ==
  IF net.readFails
  THEN [rc |-> 0, st |-> FetchError(st, a, MsgReadBody, net.status)]
  ELSE LET w1 == WriteUint32Le(st, a.resultStatusPtr, net.status)
           w2 == writeBytesResult(w1.st, a.resultBodyPtr, a.resultBodyCapacity,
                                  a.resultBodyLenPtr, net.body)
       IN IF ~w1.ok THEN [rc |-> 1, st |-> w1.st]
          ELSE IF ~w2.ok
               THEN [rc |-> 0,
                     st |-> WriteUint32Le(
                              writeStringResult(w2.st, a.resultErrorPtr,
                                                a.resultErrorCapacity,
                                                a.resultErrorLenPtr, MsgCapacity).st,
                              a.resultBodyLenPtr, 0).st]
               ELSE [rc |-> 0, st |-> WriteUint32Le(w2.st, a.resultErrorLenPtr, 0).st]

\* A method that is passed on as it was read (mutant of methodOrDefault).
methodAsRead(bytes) == bytes

\* method = "GET" when the method read from guest memory is empty.
methodOrDefault(bytes) == IF bytes = << >> THEN MethodGet ELSE bytes

\* httpFetch: a are the arguments, net what the network does, m the guest
\* memory when the call begins.
httpFetch(a, net, m) ==
  LET st == [mem |-> m, wrote |-> {}]
      urlBytes == MemRead(m, a.urlPtr, a.urlLen)
      methodBytes == MemRead(m, a.methodPtr, a.methodLen)
      bodyBytes == IF a.bodyLen > 0 THEN MemRead(m, a.bodyPtr, a.bodyLen)
                   ELSE [ok |-> TRUE, bytes |-> << >>]
      method == methodOrDefault(methodBytes.bytes)
      timeout == IF ~U32Less(U32(0), a.timeoutMillis) THEN U32(DefaultTimeout)
                 ELSE a.timeoutMillis
  IN IF ~urlBytes.ok \/ ~methodBytes.ok \/ ~bodyBytes.ok
     THEN FetchReturn(1, st, FALSE, << >>, << >>, << >>, U32(0))
     ELSE IF NewRequestFails(method, urlBytes.bytes)
     THEN FetchReturn(0, FetchError(st, a, MsgCreate, 0), FALSE, method,
                      urlBytes.bytes, bodyBytes.bytes, timeout)
     ELSE IF net.refused \/ net.latency >= RequestDeadline(timeout)
     THEN FetchReturn(0, FetchError(st, a, MsgExecute, 0), TRUE, method,
                      urlBytes.bytes, bodyBytes.bytes, timeout)
     ELSE LET r == FetchResponse(st, a, net)
          IN FetchReturn(r.rc, r.st, TRUE, method, urlBytes.bytes, bodyBytes.bytes,
                         timeout)

\* The guest memory before the call: the request's url, method and body at
\* their addresses, result cells and buffers zero (callHostHTTPFetch).
GuestMemory(url) ==
  [x \in 0..(MemSize - 1) |->
     CASE x >= UrlAt /\ x < UrlAt + 2 -> url[x - UrlAt + 1]
       [] x >= MethodAt /\ x < MethodAt + 3 -> MethodPut[x - MethodAt + 1]
       [] x >= BodyAt /\ x < BodyAt + 2 -> RequestBody[x - BodyAt + 1]
       [] OTHER -> 0]

\* The calls a guest can make.
FetchArgSet ==
  [urlPtr : {UrlAt, Beyond}, urlLen : {2},
   methodPtr : {MethodAt, Beyond}, methodLen : {0, 3},
   bodyPtr : {BodyAt, Beyond}, bodyLen : {0, 2},
   timeoutMillis : {U32(0), U32(1000), U32(60000)},
   resultStatusPtr : {StatusAt, Beyond},
   resultBodyPtr : {ResultBodyAt, Beyond}, resultBodyCapacity : {0, BodyBufSize},
   resultBodyLenPtr : {BodyLenAt, Beyond},
   resultErrorPtr : {ResultErrorAt, Beyond},
   resultErrorCapacity : {0, ErrorBufSize, ErrorBufSize + 2},
   resultErrorLenPtr : {ErrorLenAt, Beyond}]

\* What the network does: it refuses, or a response with a status arrives
\* after latency milliseconds, whose body can be read or not.
FetchNetSet ==
  {[refused |-> TRUE, latency |-> 0, status |-> 0, readFails |-> FALSE, body |-> << >>]}
  \cup {[refused |-> FALSE, latency |-> l, status |-> s, readFails |-> TRUE, body |-> << >>] :
          l \in {10, 40000}, s \in {200, 404}}
  \cup {[refused |-> FALSE, latency |-> l, status |-> s, readFails |-> FALSE,
         body |-> SubSeq(ResponseBytes, 1, n)] :
          l \in {10, 40000}, s \in {200, 404}, n \in {0, 1, MaxBodyLen}}

NoFetchOut ==
  [called |-> FALSE, rc |-> 0, mem |-> << >>, wrote |-> {}, made |-> FALSE,
   method |-> << >>, url |-> << >>, body |-> << >>, timeout |-> U32(0), deadline |-> 0]

InitFetch ==
  /\ backend = "wasm"
  /\ InitFields
  /\ override = FALSE
  /\ mock = NoMock
  /\ guestMem \in {GuestMemory(u) : u \in {UrlGood, UrlBad}}
  /\ fetchArgs \in FetchArgSet
  /\ fetchNet \in FetchNetSet
  /\ fetchOut = NoFetchOut
  /\ guestCall = << >> /\ guestRet = << >>

\* The guest calls http_fetch and the host function returns.
http_fetch ==
  /\ ~fetchOut.called
  /\ fetchOut' = httpFetch(fetchArgs, fetchNet, guestMem)
  /\ guestMem' = fetchOut'.mem
  /\ UNCHANGED <<backend, override, mu, supVars, envVars, callVars, ncloses, mock,
                 fetchArgs, fetchNet, guestCall, guestRet>>

NextFetch == http_fetch

SpecFetch == InitFetch /\ [][NextFetch]_vars

\* Reading the url, the method or a non-empty body is out of bounds.
InputOutOfBounds(a) ==
  \/ ~InBounds(a.urlPtr, a.urlLen)
  \/ ~InBounds(a.methodPtr, a.methodLen)
  \/ (a.bodyLen > 0 /\ ~InBounds(a.bodyPtr, a.bodyLen))

\* C21: httpFetch returns 1 whenever reading the url, the method or a
\* non-empty body from guest memory is out of bounds, and whenever it returns
\* 1 the call has written to no address: every result cell and buffer is as
\* it was.
C21_InputFaultReturnsOneWritesNothing ==
  fetchOut.called =>
    /\ InputOutOfBounds(fetchArgs) => fetchOut.rc = 1
    /\ fetchOut.rc = 1 =>
         /\ fetchOut.wrote = {}
         /\ guestMem \in {GuestMemory(u) : u \in {UrlGood, UrlBad}}

\* C21 witness: a call whose non-empty body lies out of bounds, with every
\* result pointer in bounds, has returned 1.
C21_Witness ==
  /\ fetchOut.called /\ fetchOut.rc = 1
  /\ fetchArgs.bodyLen > 0 /\ fetchArgs.bodyPtr = Beyond
  /\ fetchArgs.urlPtr = UrlAt /\ fetchArgs.methodPtr = MethodAt
  /\ fetchArgs.resultStatusPtr = StatusAt /\ fetchArgs.resultBodyLenPtr = BodyLenAt
  /\ fetchArgs.resultErrorLenPtr = ErrorLenAt
  /\ fetchArgs.resultBodyPtr = ResultBodyAt /\ fetchArgs.resultErrorPtr = ResultErrorAt

\* Every result cell and the whole of both result buffers lie in bounds.
ResultPointersInBounds(a) ==
  /\ InBounds(a.resultStatusPtr, 4)
  /\ InBounds(a.resultBodyPtr, a.resultBodyCapacity)
  /\ InBounds(a.resultBodyLenPtr, 4)
  /\ InBounds(a.resultErrorPtr, a.resultErrorCapacity)
  /\ InBounds(a.resultErrorLenPtr, 4)

\* The call made the request, a response arrived in time and its body was
\* read.
ResponseRead ==
  /\ fetchOut.called /\ fetchOut.made
  /\ ~fetchNet.refused /\ fetchNet.latency < fetchOut.deadline
  /\ ~fetchNet.readFails

\* The cells and buffers as the guest finds them after the call.
StatusCell == ReadUint32Le(guestMem, fetchArgs.resultStatusPtr)
BodyLenCell == ReadUint32Le(guestMem, fetchArgs.resultBodyLenPtr)
ErrorLenCell == ReadUint32Le(guestMem, fetchArgs.resultErrorLenPtr)
BodyBuffer == MemRead(guestMem, fetchArgs.resultBodyPtr, fetchArgs.resultBodyCapacity).bytes
BodyBufferAddrs ==
  {x \in DOMAIN guestMem : x >= fetchArgs.resultBodyPtr
                           /\ x < fetchArgs.resultBodyPtr + fetchArgs.resultBodyCapacity}

\* C22: when a response body of length L was read, the body capacity C is
\* smaller than L and all result pointers are in bounds, the body buffer holds
\* exactly the first C bytes of the body and the body length cell holds L when
\* httpFetch returns.
C22_TruncatedBodyKeepsTrueLength ==
  (ResponseRead /\ ResultPointersInBounds(fetchArgs)
   /\ Len(fetchNet.body) > fetchArgs.resultBodyCapacity) =>
    /\ BodyBuffer = SubSeq(fetchNet.body, 1, fetchArgs.resultBodyCapacity)
    /\ BodyBufferAddrs \subseteq fetchOut.wrote
    /\ BodyLenCell = Len(fetchNet.body)

\* C22 witness: a body of MaxBodyLen bytes was read into a buffer of
\* BodyBufSize bytes: the buffer holds its first bytes, the length cell
\* MaxBodyLen.
C22_Witness ==
  /\ ResponseRead /\ ResultPointersInBounds(fetchArgs)
  /\ Len(fetchNet.body) = MaxBodyLen /\ fetchArgs.resultBodyCapacity = BodyBufSize
  /\ BodyBuffer = SubSeq(ResponseBytes, 1, BodyBufSize)
  /\ BodyLenCell = MaxBodyLen

\* C23: whenever the response body is longer than the body capacity, httpFetch
\* returns 0 with a non-empty error text (error length cell > 0) instead of a
\* truncated body with an empty error.
C23_OverflowTakesErrorPath ==
  (ResponseRead /\ ResultPointersInBounds(fetchArgs)
   /\ Len(fetchNet.body) > fetchArgs.resultBodyCapacity) =>
    (fetchOut.rc = 0 /\ ErrorLenCell > 0)

\* The four-byte result cell at ptr was written by the call.
CellWritten(ptr) ==
  InBounds(ptr, 4) /\ (ptr .. ptr + 3) \subseteq fetchOut.wrote

\* C24: httpFetch returns 0 only if the status cell, the body length cell and
\* the error length cell were all written by that call; a failed write of a
\* result field makes it return 1.
C24_ZeroOnlyIfCellsWritten ==
  (fetchOut.called /\ fetchOut.rc = 0) =>
    /\ CellWritten(fetchArgs.resultStatusPtr)
    /\ CellWritten(fetchArgs.resultBodyLenPtr)
    /\ CellWritten(fetchArgs.resultErrorLenPtr)

\* How the call ended, from what the request did.
RequestFailed ==
  fetchOut.called /\ ~InputOutOfBounds(fetchArgs)
  /\ (~fetchOut.made \/ fetchNet.refused \/ fetchNet.latency >= fetchOut.deadline)
BodyReadFailed ==
  /\ fetchOut.called /\ fetchOut.made
  /\ ~fetchNet.refused /\ fetchNet.latency < fetchOut.deadline
  /\ fetchNet.readFails

\* The first bytes of the error buffer, as many as an error text of Len(msg)
\* bytes leaves there.
ErrorBufferHolds(msg) ==
  MemRead(guestMem, fetchArgs.resultErrorPtr,
          Min(Len(msg), fetchArgs.resultErrorCapacity)).bytes
    = SubSeq(msg, 1, Min(Len(msg), fetchArgs.resultErrorCapacity))

\* The three outcomes a call that returns 0 leaves in the result fields.
ThreeOutcomes ==
  /\ fetchOut.rc = 0
  /\ CellWritten(fetchArgs.resultStatusPtr)
  /\ CellWritten(fetchArgs.resultBodyLenPtr)
  /\ CellWritten(fetchArgs.resultErrorLenPtr)
  /\ RequestFailed =>
       /\ StatusCell = 0 /\ ErrorLenCell > 0 /\ BodyLenCell = 0
       /\ ErrorBufferHolds(MsgCreate) \/ ErrorBufferHolds(MsgExecute)
  /\ BodyReadFailed =>
       /\ StatusCell = fetchNet.status /\ ErrorLenCell > 0 /\ BodyLenCell = 0
       /\ ErrorBufferHolds(MsgReadBody)
  /\ ResponseRead =>
       /\ StatusCell = fetchNet.status /\ ErrorLenCell = 0
       /\ BodyLenCell = Len(fetchNet.body)
       /\ BodyBuffer = [i \in 1..fetchArgs.resultBodyCapacity |->
                          IF i <= Len(fetchNet.body) THEN fetchNet.body[i] ELSE 0]
  /\ RequestFailed \/ BodyReadFailed \/ ResponseRead

\* C25 as stated: with all result pointers in bounds httpFetch returns 0 and
\* writes one of the three outcomes (failure before a response: status 0, an
\* error, no body; body read failure: the HTTP status, an error, no body;
\* success: the HTTP status, the body, no error).
C25_Original ==
  (fetchOut.called /\ ResultPointersInBounds(fetchArgs)) => ThreeOutcomes

\* C25: with all result pointers in bounds and the url, method and body
\* readable from guest memory, httpFetch returns 0 and writes one of the three
\* outcomes.
C25_ThreeOutcomes ==
  (fetchOut.called /\ ResultPointersInBounds(fetchArgs)
   /\ ~InputOutOfBounds(fetchArgs)) => ThreeOutcomes

\* C25 witness: the body of a 404 response could not be read; the call
\* returned 0 with status 404, an error text and body length 0.
C25_Witness ==
  /\ BodyReadFailed /\ ResultPointersInBounds(fetchArgs)
  /\ fetchNet.status = 404 /\ fetchOut.rc = 0
  /\ StatusCell = 404 /\ ErrorLenCell = Len(MsgReadBody) /\ BodyLenCell = 0

\* C26: after a call that returned 0 with all result pointers in bounds, the
\* body length cell and the error length cell, both written by the call, are
\* never both greater than zero.
C26_BodyOrErrorNotBoth ==
  (fetchOut.called /\ fetchOut.rc = 0 /\ ResultPointersInBounds(fetchArgs)) =>
    /\ CellWritten(fetchArgs.resultBodyLenPtr)
    /\ CellWritten(fetchArgs.resultErrorLenPtr)
    /\ ~(BodyLenCell > 0 /\ ErrorLenCell > 0)

\* C26 witness: a call returned 0 with a body longer than the buffer: the
\* body length is positive and the error length is 0.
C26_Witness ==
  /\ fetchOut.called /\ fetchOut.rc = 0 /\ ResultPointersInBounds(fetchArgs)
  /\ Len(fetchNet.body) > fetchArgs.resultBodyCapacity
  /\ BodyLenCell > 0 /\ ErrorLenCell = 0

\* The timeout the guest asked for: timeoutMillis, or 30000 ms for 0.
RequestedTimeout ==
  IF fetchArgs.timeoutMillis = U32(0) THEN U32(30000) ELSE fetchArgs.timeoutMillis

\* C27: a call with timeoutMillis = 0 bounds its request by exactly 30000 ms
\* and a call with timeoutMillis > 0 by exactly that many milliseconds: a
\* response that arrives before that bound is delivered.
C27_TimeoutExactlyAsRequested ==
  (fetchOut.called /\ fetchOut.made) =>
    /\ U32(fetchOut.deadline) = RequestedTimeout
    /\ (~fetchNet.refused /\ U32Less(U32(fetchNet.latency), RequestedTimeout)) =>
         (BodyReadFailed \/ ResponseRead)

\* The part of C27 that holds: the context of the request carries exactly the
\* requested timeout (30000 ms for 0), the bound on the request is exactly that
\* for a timeout of at most 30000 ms, and the call leaves the supervisor and
\* its worker session as they were.
C27_ContextTimeoutAsRequested ==
  [][http_fetch =>
       /\ fetchOut'.made =>
            /\ fetchOut'.timeout = RequestedTimeout
            /\ ~U32Less(U32(30000), RequestedTimeout) =>
                 U32(fetchOut'.deadline) = RequestedTimeout
       /\ UNCHANGED <<supVars, envVars, mu>>]_vars

\* C28: a call with an empty method (methodLen = 0) makes its request with
\* method "GET"; a non-empty method is used as the guest wrote it.
C28_EmptyMethodIsGet ==
  (fetchOut.called /\ ~InputOutOfBounds(fetchArgs)) =>
    fetchOut.method = IF fetchArgs.methodLen = 0 THEN <<71, 69, 84>>
                      ELSE MemRead(guestMem, fetchArgs.methodPtr,
                                   fetchArgs.methodLen).bytes

\* C28 witness: a request was made for a call with methodLen = 0, with
\* method "GET".
C28_Witness ==
  /\ fetchOut.called /\ fetchOut.made /\ fetchArgs.methodLen = 0
  /\ fetchOut.method = <<71, 69, 84>>

\* ============================================ MCPAgent (start outside the lock)
\* The MCPAgent of part_009: ensureClientInitialized tests a.client under the
\* mutex, releases it, starts the process and performs the handshake without
\* it, and takes it again to attach. It uses the fields cmd, stdin and client,
\* the stdin and stdout pipes of each attempt (hostStdinWriter,
\* hostStdoutReader), and has no Close.

Agent_startPipes(f) ==
  CASE f = "stdinPipe" -> NoPipes
    [] f = "stdoutPipe" -> [NoPipes EXCEPT !.hostStdinWriter = 1]
    [] f = "start" -> [NoPipes EXCEPT !.hostStdinWriter = 1, !.hostStdoutReader = 1]
    [] OTHER -> [NoPipes EXCEPT !.hostStdinWriter = 0, !.hostStdoutReader = 0]

Agent_startErr(f) ==
  Wrap(CASE f = "stdinPipe" -> "failed to get stdin pipe for MCP server: "
         [] f = "stdoutPipe" -> "failed to get stdout pipe for MCP server: "
         [] OTHER -> "failed to start MCP server process: ", OsErr)

Agent_initErr == Wrap("failed to initialize MCP client: ", InitErr)

\* GetArtistBiography / GetArtistURL when ensureClientInitialized failed.
Agent_notReady(err) == [text |-> "", err |-> Wrap("MCP agent not ready: ", err)]

\* GetArtistBiography / GetArtistURL from the return of CallTool on.
Agent_callResult(toolName, response, callErr) ==
  IF callErr # NilErr
  THEN IF IsCommError(callErr)
       THEN [text |-> "",
             err |-> Wrap("MCP agent process communication error: ", callErr)]
       ELSE [text |-> "",
             err |-> Wrap("failed to call MCP tool '" \o toolName \o "': ", callErr)]
  ELSE IF IsEmptyResponse(response)
       THEN [text |-> "", err |-> ErrNotFound]
       ELSE [text |-> response.content[1].text, err |-> NilErr]

\* cmd.Process.Kill() on the process of attempt s.
Agent_kill(st, s) ==
  [StopWorker(st, s, "killed") EXCEPT !.kills[s] = @ + 1]

\* Callers between the first test of a.client and the end of
\* ensureClientInitialized.
Agent_inEnsure == {c \in Callers : pc[c] \in {"agentStart", "agentHandshake", "agentAttach"}}

\* ensureClientInitialized up to the start: the override, or Lock, the test of
\* a.client, Unlock. (The start branch needs a free attempt index for every
\* caller that takes it, which bounds the model.)
Agent_ensureCheck(c) ==
  /\ backend = "agent"
  /\ pc[c] \in {"idle", "returned"}
  /\ mu = Free
  /\ ncalls < MaxCalls
  /\ (client = Nil /\ ~override) =>
       nsess + Cardinality({d \in Callers : pc[d] = "agentStart"}) < MaxSessions
  /\ cur' = [cur EXCEPT ![c] = Nil]
  /\ att' = [att EXCEPT ![c] = Nil]
  /\ ret' = [ret EXCEPT ![c] = NoRet]
  /\ ncalls' = ncalls + 1
  /\ IF override
     THEN /\ client' = IF client = Nil THEN MockClient ELSE client
          /\ pc' = [pc EXCEPT ![c] = "ensured"]
     ELSE /\ pc' = [pc EXCEPT ![c] = IF client # Nil THEN "ensured" ELSE "agentStart"]
          /\ UNCHANGED client
  /\ UNCHANGED <<fetchVars, mock, backend, override, mu, cmd, wasmModule, wasmCompiled,
                 stdin, shared, envVars, ctxDone, mod, ncloses>>

\* ensureClientInitialized, without the mutex: the two pipes, cmd.Start() and
\* the monitoring goroutine; a failure is returned through the caller.
Agent_start(c) ==
  /\ backend = "agent"
  /\ pc[c] = "agentStart"
  /\ nsess < MaxSessions
  /\ LET s == nsess + 1 IN
     \E f \in {"ok", "stdinPipe", "stdoutPipe", "start"} :
       /\ nsess' = s
       /\ startRes' = [startRes EXCEPT ![s] = f]
       /\ pipes' = [pipes EXCEPT ![s] = Agent_startPipes(f)]
       /\ IF f = "ok"
          THEN /\ worker' = [worker EXCEPT ![s] = "running"]
               /\ watcher' = [watcher EXCEPT ![s] = "waiting"]
               /\ monitored' = [monitored EXCEPT ![s] = s]
               /\ att' = [att EXCEPT ![c] = s]
               /\ pc' = [pc EXCEPT ![c] = "agentHandshake"]
               /\ UNCHANGED ret
          ELSE /\ ret' = [ret EXCEPT ![c] = Agent_notReady(Agent_startErr(f))]
               /\ pc' = [pc EXCEPT ![c] = "returned"]
               /\ UNCHANGED <<worker, watcher, monitored, att>>
  /\ UNCHANGED <<fetchVars, mock, backend, override, mu, supVars, hs, chan, kills, compiled,
                 wclean, cur, ctxDone, mod, ncalls, ncloses>>

\* ensureClientInitialized, without the mutex: clientImpl.Initialize; when it
\* fails the caller kills the process it started.
Agent_handshake(c) ==
  /\ backend = "agent"
  /\ pc[c] = "agentHandshake"
  /\ LET s == att[c] IN
     \E ok \in BOOLEAN :
       /\ ok => worker[s] = "running"
       /\ hs' = [hs EXCEPT ![s] = IF ok THEN "ok" ELSE "failed"]
       /\ IF ok
          THEN /\ pc' = [pc EXCEPT ![c] = "agentAttach"]
               /\ UNCHANGED <<supVars, worker, pipes, chan, kills, compiled, ret>>
          ELSE /\ Commit(Agent_kill(World, s))
               /\ ret' = [ret EXCEPT ![c] = Agent_notReady(Agent_initErr)]
               /\ pc' = [pc EXCEPT ![c] = "returned"]
  /\ UNCHANGED <<fetchVars, mock, backend, override, mu, nsess, startRes, watcher,
                 monitored, wclean, cur, ctxDone, att, mod, ncalls, ncloses>>

\* An attach without the second test of a.client (mutant of
\* Agent_alreadyInitialized).
Agent_attachUntested(st) == FALSE

\* The second test under the mutex: a.client != nil.
Agent_alreadyInitialized(st) == st.client # Nil

\* ensureClientInitialized after the handshake: Lock, the second test of
\* a.client, then either Unlock and the kill of the redundant process, or the
\* three assignments and Unlock; both return nil.
Agent_attach(c) ==
  /\ backend = "agent"
  /\ pc[c] = "agentAttach"
  /\ mu = Free
  /\ LET s == att[c] IN
     IF Agent_alreadyInitialized(World)
     THEN Commit(Agent_kill(World, s))
     ELSE Commit([World EXCEPT !.cmd = s, !.stdin = s, !.client = s])
  /\ pc' = [pc EXCEPT ![c] = "ensured"]
  /\ UNCHANGED <<fetchVars, mock, backend, override, mu, nsess, startRes, hs, watcher,
                 monitored, wclean, cur, ctxDone, att, mod, ret, ncalls, ncloses>>

\* GetArtistBiography / GetArtistURL after ensureClientInitialized: Lock, the
\* test of a.client, currentClient := a.client, Unlock.
Agent_lockClient(c) ==
  /\ backend = "agent"
  /\ pc[c] = "ensured"
  /\ mu = Free
  /\ IF client = Nil
     THEN /\ ret' = [ret EXCEPT ![c] =
                       [text |-> "", err |-> <<"MCP agent process is not running">>]]
          /\ pc' = [pc EXCEPT ![c] = "returned"]
          /\ UNCHANGED cur
     ELSE /\ cur' = [cur EXCEPT ![c] = client]
          /\ pc' = [pc EXCEPT ![c] = "agentCalling"]
          /\ UNCHANGED ret
  /\ UNCHANGED <<fetchVars, mock, backend, override, mu, supVars, envVars, ctxDone, att,
                 mod, ncalls, ncloses>>

\* GetArtistBiography / GetArtistURL: currentClient.CallTool returns and the
\* result is mapped. A real client answers while its process runs and fails
\* with an EOF once it is gone.
Agent_callTool(c) ==
  /\ backend = "agent"
  /\ pc[c] = "agentCalling"
  /\ \E toolName \in Tools, o \in {"answer", "eof"} :
       /\ o = "answer" => (cur[c] = MockClient \/ Answers(cur[c]))
       /\ o = "eof" => (cur[c] = MockClient \/ ~Answers(cur[c]))
       /\ ret' = [ret EXCEPT ![c] =
                    Agent_callResult(toolName,
                                     IF o = "answer" THEN BioResponse ELSE NilResponse,
                                     IF o = "answer" THEN NilErr
                                     ELSE Wrap("read: ", ErrEOF))]
  /\ pc' = [pc EXCEPT ![c] = "returned"]
  /\ UNCHANGED <<fetchVars, mock, backend, override, mu, supVars, envVars, cur, ctxDone,
                 att, mod, ncalls, ncloses>>

\* The watcher's test under the lock: a.cmd == processCmd.
Agent_watcherMatches(st, s) == st.cmd = monitored[s]

\* The monitoring goroutine: processCmd.Wait() has returned; Lock, the
\* identity test, close and forget a.stdin, forget a.client and a.cmd, Unlock.
Agent_watcher(s) ==
  /\ backend = "agent"
  /\ watcher[s] = "waiting"
  /\ worker[s] \in {"exited", "killed"}
  /\ mu = Free
  /\ IF Agent_watcherMatches(World, s)
     THEN /\ Commit([(IF stdin # Nil THEN ClosePipe(World, stdin, "hostStdinWriter")
                      ELSE World)
                     EXCEPT !.stdin = Nil, !.client = Nil, !.cmd = Nil])
          /\ wclean' = [wclean EXCEPT ![s] = Seen(World, TRUE)]
     ELSE /\ UNCHANGED <<supVars, worker, pipes, chan, kills, compiled>>
          /\ wclean' = [wclean EXCEPT ![s] = Seen(World, FALSE)]
  /\ watcher' = [watcher EXCEPT ![s] = "done"]
  /\ UNCHANGED <<fetchVars, mock, backend, override, mu, nsess, startRes, hs, monitored,
                 callVars, ncloses>>

\* mcpConstructor returns &MCPAgent{}; a test may set ClientOverride.
InitAgent ==
  /\ backend = "agent"
  /\ InitFields
  /\ override \in BOOLEAN
  /\ mock = NoMock
  /\ InitNoFetch

NextAgent ==
  \/ \E c \in Callers : Agent_ensureCheck(c)
  \/ \E c \in Callers : Agent_start(c)
  \/ \E c \in Callers : Agent_handshake(c)
  \/ \E c \in Callers : Agent_attach(c)
  \/ \E c \in Callers : Agent_lockClient(c)
  \/ \E c \in Callers : Agent_callTool(c)
  \/ \E s \in Sessions : WorkerExit(s)
  \/ \E s \in Sessions : Agent_watcher(s)

SpecAgent == InitAgent /\ [][NextAgent]_vars

\* Caller c ends ensureClientInitialized after a handshake that succeeded.
Agent_AttachStep(c) == pc[c] = "agentAttach" /\ pc'[c] = "ensured"

\* Caller c takes its currentClient for the tool call.
Agent_TakeClientStep(c) == pc[c] = "ensured" /\ pc'[c] = "agentCalling"

\* C29: in the MCPAgent that starts the process outside the lock, a caller
\* that has started a process and completed the handshake attaches it only
\* when nothing is attached; when a client is already attached it leaves the
\* agent state alone, kills the process it started and returns success. Every
\* caller then makes its tool call on the attached client, and once no caller
\* is inside ensureClientInitialized the only process that can be running is
\* the attached one, so two started processes are never left running.
C29_RaceLeavesOneAttached ==
  /\ [](Agent_inEnsure = {} => (Running \subseteq {cmd} /\ Cardinality(Running) <= 1))
  /\ [][\A c \in Callers :
          /\ Agent_AttachStep(c) =>
               IF client # Nil
               THEN /\ client' = client /\ cmd' = cmd /\ stdin' = stdin
                    /\ worker'[att[c]] # "running"
                    /\ kills'[att[c]] = kills[att[c]] + 1
               ELSE cmd' = att[c] /\ stdin' = att[c] /\ client' = att[c]
          /\ Agent_TakeClientStep(c) =>
               /\ cur'[c] = client /\ client # Nil
               /\ ~override => cur'[c] = cmd]_vars

\* C29 witness: both callers started a process and completed the handshake;
\* one process is attached and running, the other was killed by its caller,
\* and both calls have returned a text without error.
C29_Witness ==
  /\ backend = "agent"
  /\ att[1] # Nil /\ att[2] # Nil /\ att[1] # att[2]
  /\ hs[att[1]] = "ok" /\ hs[att[2]] = "ok"
  /\ cmd \in {att[1], att[2]} /\ client = cmd
  /\ \A s \in {att[1], att[2]} :
       IF s = cmd THEN worker[s] = "running" /\ kills[s] = 0
       ELSE worker[s] = "killed" /\ kills[s] = 1
  /\ \A c \in Callers : pc[c] = "returned" /\ ret[c].err = NilErr /\ cur[c] = cmd

\* The two messages of callMCPTool, with the words that name the backend.
CommMessage(name, kind) ==
  name \o " MCP agent " \o kind \o " communication error: "
CallFailureMessage(name, toolName) ==
  "failed to call " \o name \o " MCP tool '" \o toolName \o "': "

\* The kind of error a callMCPTool returned for toolName.
ErrorKind(err, toolName) ==
  CASE err = NilErr -> "nil"
    [] err = <<"not found">> -> "not-found"
    [] Head(err) \in {CommMessage("native", "process"), CommMessage("WASM", "module")}
         -> "communication error"
    [] Head(err) \in {CallFailureMessage("native", toolName),
                      CallFailureMessage("WASM", toolName)} -> "call failure"
    [] OTHER -> "other"

\* C30: MCPNative.callMCPTool and MCPWasm.callMCPTool map every outcome of the
\* client's CallTool alike: for the same response and error both return the
\* same text and the same kind of error (not found, communication error, call
\* failure, nil) around the same cause, and their messages differ only in the
\* words that name the backend (native ... process, WASM ... module).
C30_BackendsSameMapping ==
  [][\A toolName \in Tools :
       Invoke(toolName) =>
         LET n == Native_callResult(toolName, mock.response, mock.err)
             w == Wasm_callResult(toolName, mock.response, mock.err)
             k == ErrorKind(n.err, toolName)
         IN /\ ret'[1] = IF backend = "native" THEN n ELSE w
            /\ n.text = w.text
            /\ ErrorKind(w.err, toolName) = k /\ k # "other"
            /\ k \in {"nil", "not-found"} => n.err = w.err
            /\ k = "communication error" =>
                 /\ n.err = <<CommMessage("native", "process")>> \o mock.err
                 /\ w.err = <<CommMessage("WASM", "module")>> \o mock.err
            /\ k = "call failure" =>
                 /\ n.err = <<CallFailureMessage("native", toolName)>> \o mock.err
                 /\ w.err = <<CallFailureMessage("WASM", toolName)>> \o mock.err]_vars

\* C30 witness: MCPWasm has returned the communication error for a broken
\* pipe, where MCPNative returns its own communication error.
C30_Witness ==
  /\ backend = "wasm" /\ override /\ pc[1] = "returned"
  /\ mock.err = <<"write |1: broken pipe">>
  /\ ret[1] = [text |-> "",
               err |-> <<"WASM MCP agent module communication error: ",
                         "write |1: broken pipe">>]
  /\ Native_callResult(mock.callToolName, mock.response, mock.err)
       = [text |-> "",
          err |-> <<"native MCP agent process communication error: ",
                    "write |1: broken pipe">>]

\* ============================================ the guest wrapper of http_fetch
\* callHostHTTPFetch of the guest (part_002, part_003): it lays out its
\* arguments and two result buffers, calls the host function and turns the
\* result cells into (statusCode, responseBody, err).

\* A time.Duration: its sign, the int64 that Milliseconds() returns (held as
\* hi * 2^16 + lo with 0 <= lo < 2^16; hi is negative for a negative count)
\* and whether nanoseconds remain beyond the whole milliseconds.
Duration(sign, hi, lo, rest) == [sign |-> sign, hi |-> hi, lo |-> lo, rest |-> rest]

\* timeout.Milliseconds()
Milliseconds(d) == [hi |-> d.hi, lo |-> d.lo]

\* uint32(x) of an int64: its low 32 bits.
Uint32(x) == [hi |-> x.hi % Half, lo |-> x.lo]

\* The timeouts a caller of Fetch passes: none, half a millisecond, one
\* second, sixty seconds, minus one millisecond, 2^32 ms and 2^32 + 5000 ms.
GuestTimeouts ==
  {Duration(0, 0, 0, FALSE), Duration(1, 0, 0, TRUE), Duration(1, 0, 1000, FALSE),
   Duration(1, 0, 60000, FALSE), Duration(-1, -1, Half - 1, FALSE),
   Duration(1, Half, 0, FALSE), Duration(1, Half, 5000, FALSE)}

\* timeoutMillis := uint32(timeout.Milliseconds()), 30000 when that is <= 0.
guestTimeoutMillis(timeout) ==
  LET u == Uint32(Milliseconds(timeout))
  IN IF ~U32Less(U32(0), u) THEN U32(30000) ELSE u

\* stringToPtr / bytesToPtr of a value the guest holds at address at.
bytesToPtr(b, at) == IF Len(b) = 0 THEN [ptr |-> 0, len |-> 0]
                     ELSE [ptr |-> at, len |-> Len(b)]

\* The arguments callHostHTTPFetch passes to http_fetch; the two result
\* buffers have defaultResponseBodyCapacity and defaultResponseErrorCapacity
\* bytes (BodyBufSize and ErrorBufSize here).
guestArgs(call, timeoutMillis) ==
  [urlPtr |-> bytesToPtr(call.url, UrlAt).ptr, urlLen |-> bytesToPtr(call.url, UrlAt).len,
   methodPtr |-> bytesToPtr(call.method, MethodAt).ptr,
   methodLen |-> bytesToPtr(call.method, MethodAt).len,
   bodyPtr |-> bytesToPtr(call.requestBody, BodyAt).ptr,
   bodyLen |-> bytesToPtr(call.requestBody, BodyAt).len,
   timeoutMillis |-> timeoutMillis,
   resultStatusPtr |-> StatusAt,
   resultBodyPtr |-> ResultBodyAt, resultBodyCapacity |-> BodyBufSize,
   resultBodyLenPtr |-> BodyLenAt,
   resultErrorPtr |-> ResultErrorAt, resultErrorCapacity |-> ErrorBufSize,
   resultErrorLenPtr |-> ErrorLenAt]

\* The errors callHostHTTPFetch returns: none, ctx.Err(), the host failure,
\* the host's error text, and the truncation report with its two numbers.
GuestNilErr == [kind |-> "nil", msg |-> << >>, received |-> 0, actual |-> 0]
GuestCtxErr == [kind |-> "ctx", msg |-> << >>, received |-> 0, actual |-> 0]
GuestHostErr == [kind |-> "host function http_fetch failed internally",
                 msg |-> << >>, received |-> 0, actual |-> 0]
GuestMsgErr(msg) == [kind |-> "message", msg |-> msg, received |-> 0, actual |-> 0]
GuestTruncatedErr(received, actual) ==
  [kind |-> "response body truncated", msg |-> << >>, received |-> received,
   actual |-> actual]

GuestReturn(hostCalled, timeoutMillis, statusCode, responseBody, err, readBody, readError) ==
  [called |-> TRUE, hostCalled |-> hostCalled, timeoutMillis |-> timeoutMillis,
   statusCode |-> statusCode, responseBody |-> responseBody, err |-> err,
   readBody |-> readBody, readError |-> readError]

\* A result processing that returns a truncated body without an error (mutant
\* of guestResults).
guestResultsSilentTruncation(hostReturnCode, m, a, timeoutMillis) ==
  LET resultStatus == ReadUint32Le(m, a.resultStatusPtr)
      resultBodyLen == ReadUint32Le(m, a.resultBodyLenPtr)
      resultErrorLen == ReadUint32Le(m, a.resultErrorLenPtr)
      actualErrorLen == Min(resultErrorLen, a.resultErrorCapacity)
      actualBodyLen == Min(resultBodyLen, a.resultBodyCapacity)
  IN IF hostReturnCode # 0
     THEN GuestReturn(TRUE, timeoutMillis, 0, << >>, GuestHostErr, 0, 0)
     ELSE IF resultErrorLen > 0
     THEN GuestReturn(TRUE, timeoutMillis, resultStatus, << >>,
                      GuestMsgErr(MemRead(m, a.resultErrorPtr, actualErrorLen).bytes),
                      0, actualErrorLen)
     ELSE IF resultBodyLen > 0
     THEN GuestReturn(TRUE, timeoutMillis, resultStatus,
                      MemRead(m, a.resultBodyPtr, actualBodyLen).bytes,
                      GuestNilErr, actualBodyLen, 0)
     ELSE GuestReturn(TRUE, timeoutMillis, resultStatus, << >>, GuestNilErr, 0, 0)

\* callHostHTTPFetch from the return of http_fetch on: m is the memory the
\* host left, a the arguments it was called with.
guestResults(hostReturnCode, m, a, timeoutMillis) ==
  LET resultStatus == ReadUint32Le(m, a.resultStatusPtr)
      resultBodyLen == ReadUint32Le(m, a.resultBodyLenPtr)
      resultErrorLen == ReadUint32Le(m, a.resultErrorLenPtr)
      actualErrorLen == Min(resultErrorLen, a.resultErrorCapacity)
      actualBodyLen == Min(resultBodyLen, a.resultBodyCapacity)
  IN IF hostReturnCode # 0
     THEN GuestReturn(TRUE, timeoutMillis, 0, << >>, GuestHostErr, 0, 0)
     ELSE IF resultErrorLen > 0
     THEN GuestReturn(TRUE, timeoutMillis, resultStatus, << >>,
                      GuestMsgErr(MemRead(m, a.resultErrorPtr, actualErrorLen).bytes),
                      0, actualErrorLen)
     ELSE IF resultBodyLen > 0
     THEN GuestReturn(TRUE, timeoutMillis, resultStatus,
                      MemRead(m, a.resultBodyPtr, actualBodyLen).bytes,
                      IF resultBodyLen > a.resultBodyCapacity
                      THEN GuestTruncatedErr(actualBodyLen, resultBodyLen)
                      ELSE GuestNilErr,
                      actualBodyLen, 0)
     ELSE GuestReturn(TRUE, timeoutMillis, resultStatus, << >>, GuestNilErr, 0, 0)

NoGuestRet ==
  [called |-> FALSE, hostCalled |-> FALSE, timeoutMillis |-> U32(0), statusCode |-> 0,
   responseBody |-> << >>, err |-> GuestNilErr, readBody |-> 0, readError |-> 0]

\* The calls of Fetch: a method or none, a url, a request body or none, a
\* timeout, with ctx done or not.
GuestCallSet ==
  [method : {<< >>, MethodPut}, url : {UrlGood, UrlBad},
   requestBody : {<< >>, RequestBody}, timeout : GuestTimeouts, ctxDone : BOOLEAN]

NoFetchArgs == guestArgs([method |-> << >>, url |-> << >>, requestBody |-> << >>], U32(0))

InitGuest ==
  /\ backend = "wasm"
  /\ InitFields
  /\ override = FALSE
  /\ mock = NoMock
  /\ guestCall \in GuestCallSet
  /\ guestMem = GuestMemory(guestCall.url)
  /\ fetchArgs = NoFetchArgs
  /\ fetchNet \in FetchNetSet
  /\ fetchOut = NoFetchOut
  /\ guestRet = NoGuestRet

\* One callHostHTTPFetch: the arguments, the early return for timeout == 0
\* with ctx done, the host call, the results.
callHostHTTPFetch ==
  /\ ~guestRet.called
  /\ LET timeoutMillis == guestTimeoutMillis(guestCall.timeout)
         a == guestArgs(guestCall, timeoutMillis)
         out == httpFetch(a, fetchNet, guestMem)
     IN IF guestCall.timeout.sign = 0 /\ guestCall.ctxDone
        THEN /\ guestRet' = GuestReturn(FALSE, timeoutMillis, 0, << >>, GuestCtxErr, 0, 0)
             /\ UNCHANGED <<guestMem, fetchArgs, fetchOut>>
        ELSE /\ fetchArgs' = a
             /\ fetchOut' = out
             /\ guestMem' = out.mem
             /\ guestRet' = guestResults(out.rc, out.mem, a, timeoutMillis)
  /\ UNCHANGED <<backend, override, mu, supVars, envVars, callVars, ncloses, mock,
                 fetchNet, guestCall>>

NextGuest == callHostHTTPFetch

SpecGuest == InitGuest /\ [][NextGuest]_vars

\* The timeout is zero or negative, reckoned in whole milliseconds.
NonPositiveMillis(d) == d.hi < 0 \/ (d.hi = 0 /\ d.lo = 0)

\* C31: callHostHTTPFetch passes timeoutMillis = 30000 for every timeout that
\* is zero or negative and the timeout's millisecond value otherwise; the
\* conversion to uint32 turns no negative or over-32-bit timeout into another
\* positive timeout.
C31_NonPositiveTimeoutIsDefault ==
  guestRet.called =>
    IF NonPositiveMillis(guestCall.timeout)
    THEN guestRet.timeoutMillis = U32(30000)
    ELSE guestRet.timeoutMillis = Milliseconds(guestCall.timeout)

\* The part of C31 that holds: a timeout of zero, or of less than a
\* millisecond, is passed as 30000, and a timeout of 1 ms up to 2^32 - 1 ms as
\* its millisecond value.
C31_InRangeTimeoutPassed ==
  guestRet.called =>
    LET ms == Milliseconds(guestCall.timeout)
    IN /\ ms = U32(0) => guestRet.timeoutMillis = U32(30000)
       /\ (ms.hi >= 0 /\ ms.hi < Half /\ ms # U32(0)) => guestRet.timeoutMillis = ms

\* C32: host and guest together. When the host read a response body of length
\* L and the guest's body capacity is C: for L <= C the guest returns the HTTP
\* status, exactly the body and a nil error; for L > C it returns the status,
\* the first C bytes and a truncation error that reports C received and L
\* actual. A non-zero host code is returned as (0, nil, error). The guest
\* reads at most C body bytes and at most the error capacity of error bytes.
C32_GuestReturnsBodyOrTruncation ==
  guestRet.called =>
    /\ guestRet.readBody <= BodyBufSize /\ guestRet.readError <= ErrorBufSize
    /\ guestResults(1, guestMem, fetchArgs, guestRet.timeoutMillis)
         = GuestReturn(TRUE, guestRet.timeoutMillis, 0, << >>, GuestHostErr, 0, 0)
    /\ (guestRet.hostCalled /\ fetchOut.rc # 0) =>
         (guestRet.statusCode = 0 /\ guestRet.responseBody = << >>
          /\ guestRet.err = GuestHostErr)
    /\ (guestRet.hostCalled /\ ResponseRead) =>
         LET L == Len(fetchNet.body) IN
         /\ guestRet.statusCode = fetchNet.status
         /\ L <= BodyBufSize =>
              guestRet.responseBody = fetchNet.body /\ guestRet.err.kind = "nil"
         /\ L > BodyBufSize =>
              /\ guestRet.responseBody = SubSeq(fetchNet.body, 1, BodyBufSize)
              /\ guestRet.err = [kind |-> "response body truncated", msg |-> << >>,
                                 received |-> BodyBufSize, actual |-> L]

\* C32 witness: a 200 response of MaxBodyLen bytes came back from the guest
\* as its first BodyBufSize bytes with the truncation error.
C32_Witness ==
  /\ guestRet.called /\ guestRet.hostCalled /\ ResponseRead
  /\ fetchNet.status = 200 /\ Len(fetchNet.body) = MaxBodyLen
  /\ guestRet.statusCode = 200
  /\ guestRet.responseBody = SubSeq(ResponseBytes, 1, BodyBufSize)
  /\ guestRet.err.kind = "response body truncated"
  /\ guestRet.err.actual = MaxBodyLen

\* C33: when Close is called on a Ready MCPWasm session whose module is
\* blocking in its entry point, w.wasmModule refers to the running instance
\* and cleanupResources_locked closes it: after Close no instance of the
\* closed session is running.
C33_CloseClosesBlockingModule ==
  [][backend = "wasm" =>
       \A s \in Sessions :
         (CloseOnReady(s) /\ startRes[s] = "blocking" /\ worker[s] = "running") =>
           /\ wasmModule = s
           /\ worker'[s] # "running"
           /\ kills'[s] = kills[s] + 1]_vars

\* The InstantiateModule call of attempt s has returned and its monitoring
\* goroutine has not run yet.
InstantiateReturned(s) ==
  /\ backend = "wasm"
  /\ startRes[s] \in {"exitedEarly", "blocking", "raced"}
  /\ worker[s] \in {"exited", "killed"}
  /\ watcher[s] = "waiting"

\* C34: for every module startModule_locked started, once InstantiateModule
\* has returned its monitoring goroutine eventually takes the mutex and makes
\* the generation-checked cleanup, whether the instantiation was still
\* blocking after the startup timer or had returned without error before it.
C34_WatcherEventuallyRuns ==
  \A s \in Sessions : InstantiateReturned(s) ~> (watcher[s] = "done")

\* The part of C34 that holds: the monitoring goroutine of a module that was
\* still blocking when the startup timer fired runs once the module is gone.
C34_BlockingModuleWatched ==
  \A s \in Sessions :
    (InstantiateReturned(s) /\ startRes[s] = "blocking") ~> (watcher[s] = "done")

\* C35: the MCPAgent that starts the process outside the lock is never left
\* with a client attached whose process has exited and whose watcher has
\* already run: a process that exits between the handshake and the assignment
\* of a.cmd and a.client does not stay attached for good.
C35_NoDeadClientAfterWatcher ==
  ~(/\ backend = "agent"
    /\ client \in Sessions
    /\ worker[client] \in {"exited", "killed"}
    /\ watcher[client] = "done")

\* Caller c's CallTool returns and callMCPTool maps the result.
CallReturns(c) == pc[c] = "calling" /\ pc'[c] = "returned"

\* C36: after callMCPTool has released the mutex it changes nothing of the
\* supervisor: the return of a tool call, also one that fails on the client of
\* an old session after Close and a restart made a newer session, leaves cmd,
\* the module, stdin and client, the workers and their pipes as they are.
C36_CallReturnLeavesSupervisor ==
  [][\A c \in Callers :
       CallReturns(c) => UNCHANGED <<supVars, worker, pipes, chan, kills, compiled, mu>>]_vars

\* C36 witness: a call in flight on the client of session 1 failed with the
\* communication error after Close and a restart; session 2 is attached and
\* running.
C36_Witness ==
  /\ ~override /\ ncloses = 1
  /\ \E c \in Callers :
       /\ pc[c] = "returned" /\ cur[c] = 1
       /\ Len(ret[c].err) >= 2 /\ Head(ret[c].err) = CommKind
  /\ client = 2 /\ stdin = 2 /\ hs[2] = "ok" /\ worker[2] = "running"

\* Caller c is inside callMCPTool on MCPNative between n.mu.Lock() and the
\* n.mu.Unlock() of the path it takes.
NativeHolds(c) == backend = "native" /\ mu = CallerG(c)

\* C37: on MCPNative no goroutine keeps the mutex: a caller that has taken it
\* (for the override, the already-initialized check, or a start and a
\* handshake) eventually releases it, whatever Close calls, exit watchers and
\* other callers do meanwhile; Close and the exit watchers release it in the
\* step that takes it. And the step in which CallTool returns is the step in
\* which callMCPTool returns: it takes no mutex and waits for nobody.
C37_NativeMutexReleased ==
  /\ \A c \in Callers : NativeHolds(c) ~> (mu = Free)
  /\ [][\A c \in Callers :
          (backend = "native" /\ pc[c] = "calling" /\ pc'[c] # "calling")
            => (pc'[c] = "returned" /\ mu # CallerG(c) /\ mu' = mu)]_vars

\* C37 witness: on MCPNative without override, after a Close and after the
\* watcher of session 1 has run, a caller that restarted (session 2) and whose
\* handshake failed has returned, and the mutex is free.
C37_Witness ==
  /\ backend = "native" /\ ~override /\ mu = Free
  /\ ncloses >= 1 /\ watcher[1] = "done"
  /\ \E c \in Callers :
       /\ pc[c] = "returned" /\ att[c] = 2 /\ hs[2] = "failed"

\* MCPNative holds session s: cmd, stdin and client are those of the one
\* process start attempt s made, and its handshake succeeded.
NativeReady(s) ==
  /\ cmd = s /\ stdin = s /\ client = s
  /\ startRes[s] = "ok" /\ hs[s] = "ok"

\* C38: on MCPNative without a client override, whenever nobody holds the
\* mutex, cmd, stdin and client are all nil or all those of one started
\* process: never a client without a process, never a process without a
\* client.
C38_NativeFieldsAllOrNone ==
  (backend = "native" /\ ~override /\ mu = Free)
    => \/ (cmd = Nil /\ stdin = Nil /\ client = Nil)
       \/ \E s \in Sessions : NativeReady(s)

\* C38 witness: with the mutex free, MCPNative holds session 2 whole, after
\* the watcher of session 1 found session 1 attached and cleaned it up.
C38_Witness ==
  /\ backend = "native" /\ ~override /\ mu = Free
  /\ wclean[1].ran /\ wclean[1].cmd = 1
  /\ NativeReady(2)

\* C39: in the MCPWasm that compiles the module for every session, the
\* compiled module of a session is closed at most once, whatever Close, the
\* cleanup before a restart, the cleanup after a failed handshake and the
\* session's watcher (on its matching or its mismatching branch) do: a watcher
\* that finds another module attached does not close a compiled module that
\* cleanupResources_locked has closed already.
C39_CompiledClosedAtMostOnce ==
  backend = "wasmPerSession" => \A s \in Sessions : compiled[s] <= 1
====
